---- MODULE Spec2Model ----
(***************************************************************************)
(* Model of the log-flow tracker (LogFlowTracker, src/main.py): the        *)
(* pattern catalog, parse_log_line, and the per-line ingestion that        *)
(* maintains the flux_instances / log_entries / cross_references tables.   *)
(*                                                                         *)
(* The tables and `result` (what process_log_line last returned) are the   *)
(* state of Spec.  `phase`, `self_config` and `self_patterns` are the      *)
(* tracker under construction, its configuration and its compiled catalog; *)
(* `parsed_log` is what parse_log_line last returned, `view` what the       *)
(* latest call returned if it was a query, `stats` what a batch last       *)
(* returned.  They are constant in Spec and move in SpecParse, SpecQuery,  *)
(* SpecRate, SpecBatch and SpecLinked.  `sessions` is the work in progress  *)
(* of the workers of SpecConcurrent, `times` the clock and the date        *)
(* columns of SpecStore.                                                   *)
(*                                                                         *)
(* Text that the code splits, strips or tests for emptiness (captured      *)
(* values, references) is a sequence of one-character strings; names that  *)
(* are only compared (flow types, applications, stages, fields) are        *)
(* strings.  Python None and '' are both falsy wherever the code tests a   *)
(* captured value, and both are the empty sequence here.                   *)
(***************************************************************************)
EXTENDS Integers, Sequences, FiniteSets, TLC

VARIABLES flux_types, applications, flux_instances, log_entries,
          cross_references, result, phase, self_config, self_patterns,
          parsed_log, view, stats, sessions, times

vars == <<flux_types, applications, flux_instances, log_entries,
          cross_references, result, phase, self_config, self_patterns,
          parsed_log, view, stats, sessions, times>>

\* MaxLogs bounds the number of lines ingested in one behaviour.
MaxLogs == 3

-----------------------------------------------------------------------------
(* Text *)

Empty == <<>>
rA == <<"A">>
rB == <<"B">>
Refs == {rA, rB}

\* NULL of a nullable integer column (row ids start at 1).
NULL == 0

RECURSIVE LStrip(_)
LStrip(s) == IF s # <<>> /\ Head(s) = " " THEN LStrip(Tail(s)) ELSE s

RECURSIVE RStrip(_)
RStrip(s) ==
    IF s # <<>> /\ s[Len(s)] = " " THEN RStrip(SubSeq(s, 1, Len(s) - 1)) ELSE s

\* str.strip()
Strip(s) == RStrip(LStrip(s))

\* str.split(','): the pieces between the commas, empty pieces included.
RECURSIVE SplitFrom(_, _, _)
SplitFrom(s, i, cur) ==
    IF i > Len(s) THEN <<cur>>
    ELSE IF s[i] = "," THEN <<cur>> \o SplitFrom(s, i + 1, <<>>)
    ELSE SplitFrom(s, i + 1, Append(cur, s[i]))

Split(s) == SplitFrom(s, 1, <<>>)

\* An ordered dict is a sequence of [k, v] items; dict.get(key, default).
DictGet(d, key, default) ==
    LET hits == {i \in 1..Len(d) : d[i].k = key}
    IN  IF hits = {} THEN default ELSE d[CHOOSE i \in hits : TRUE].v

\* Query.first() over the row ids a filter selects: the lowest one (the
\* store returns rows in row-id order), NULL if there is none.
First(hits) ==
    IF hits = {} THEN NULL ELSE CHOOSE i \in hits : \A j \in hits : i <= j

-----------------------------------------------------------------------------
(* Configuration catalog *)

TsFormat == "%Y-%m-%d %H:%M:%S"

Pat(stage, regex, ids, payload, links) ==
    [log_type |-> stage, regex |-> regex, timestamp_format |-> TsFormat,
     identifier_fields |-> ids, payload_fields |-> payload,
     reference_links |-> links,
     groups |-> {"timestamp"} \cup {ids[i] : i \in 1..Len(ids)}
                  \cup {payload[i] : i \in 1..Len(payload)}
                  \cup {links[i] : i \in 1..Len(links)}]

\* config['flux_types'] in the order of the configuration file.  The line
\* keyword "LINK" is matched by a pattern of each flow type.
Config ==
    << [name |-> "ORDRE", description |-> "ordres",
        required_steps |-> <<"ORDRE_TRAITE">>, optional_steps |-> <<>>,
        applications |-> <<
          [name |-> "Backend", patterns |-> <<
             Pat("ORDRE_TRAITE", "LINK", <<"id">>, <<>>, <<"ref">>) >>] >>],
       [name |-> "COMMANDE", description |-> "commandes",
        required_steps |-> <<"COMMANDE_RECU", "VALIDATION_COMMANDE">>,
        optional_steps |-> <<"CREATION_ENFANTS">>,
        applications |-> <<
          [name |-> "Frontend", patterns |-> <<
             Pat("COMMANDE_RECU", "RECU", <<"id", "id2">>, <<>>, <<>>),
             Pat("VALIDATION_COMMANDE", "LINK", <<"id">>, <<>>, <<"ref">>),
             Pat("CREATION_ENFANTS", "CREA", <<"id">>, <<"enfants_ids">>, <<>>),
             Pat("TRAITEMENT_ENFANT", "TRAIT", <<"id">>, <<"parent_ref">>, <<>>)
          >>] >>] >>

\* self.patterns, flattened in the iteration order of the nested dicts.
RECURSIVE Flatten(_)
Flatten(ss) == IF ss = <<>> THEN <<>> ELSE Head(ss) \o Flatten(Tail(ss))

\* _compile_patterns on a configuration: one entry per (flow type,
\* application, stage), nothing checked.
Compile(cfg) ==
    Flatten([f \in 1..Len(cfg) |->
      Flatten([a \in 1..Len(cfg[f].applications) |->
        [p \in 1..Len(cfg[f].applications[a].patterns) |->
          [flux_type |-> cfg[f].name,
           application |-> cfg[f].applications[a].name,
           log_type |-> cfg[f].applications[a].patterns[p].log_type,
           pattern |-> cfg[f].applications[a].patterns[p]]]])])

CompilePatterns == Compile(Config)

\* Other configurations a tracker may be constructed on.  AltFormat is a
\* timestamp layout that is none of the near-variants of TsFormat.
AltFormat == "%d/%m/%Y %H:%M:%S"

\* Config with the stage VALIDATION_COMMANDE declaring AltFormat.
ConfigAltFormat ==
    [Config EXCEPT ![2].applications[1].patterns[2].timestamp_format = AltFormat]

\* Config in which the regex of pattern p of application a of flow type f
\* has no named group `group`, although the pattern lists it.
ConfigWithout(f, a, p, group) ==
    [Config EXCEPT ![f].applications[a].patterns[p].groups = @ \ {group}]

Catalogs ==
    { Config, ConfigAltFormat,
      ConfigWithout(2, 1, 1, "id"),
      ConfigWithout(2, 1, 3, "enfants_ids"),
      ConfigWithout(1, 1, 1, "ref"),
      ConfigWithout(1, 1, 1, "timestamp") }

\* (mutant) an application row is added whether one exists or not.
RECURSIVE InitAppsAdding(_, _, _)
InitAppsAdding(apps, names, ftid) ==
    IF names = <<>> THEN apps
    ELSE InitAppsAdding(Append(apps, [id |-> Len(apps) + 1,
                                      name |-> Head(names).name,
                                      flux_type_id |-> ftid]),
                        Tail(names), ftid)

\* _init_database on given tables: a row per flow type and per
\* (flow type, application), each created only if absent.
RECURSIVE InitApps(_, _, _)
InitApps(apps, names, ftid) ==
    IF names = <<>> THEN apps
    ELSE LET n == Head(names).name
             found == First({i \in 1..Len(apps) :
                               apps[i].name = n /\ apps[i].flux_type_id = ftid})
         IN  InitApps(IF found # NULL THEN apps
                      ELSE Append(apps, [id |-> Len(apps) + 1, name |-> n,
                                         flux_type_id |-> ftid]),
                      Tail(names), ftid)

RECURSIVE InitDatabase(_, _, _)
InitDatabase(fts, apps, cfg) ==
    IF cfg = <<>> THEN [flux_types |-> fts, applications |-> apps]
    ELSE LET c == Head(cfg)
             found == First({i \in 1..Len(fts) : fts[i].name = c.name})
             fts2 == IF found # NULL THEN fts
                     ELSE Append(fts, [id |-> Len(fts) + 1, name |-> c.name,
                                       description |-> c.description])
             ftid == IF found # NULL THEN found ELSE Len(fts) + 1
         IN  InitDatabase(fts2, InitApps(apps, c.applications, ftid), Tail(cfg))

-----------------------------------------------------------------------------
(* Raw lines *)

\* A captured timestamp text: the layout it is written in and the instant
\* it denotes.
TsText(layout, instant) == [layout |-> layout, instant |-> instant]

\* A raw line after strip(): the keyword the regexes look for (empty for a
\* line that is empty after strip), its timestamp text, and the text each
\* named group captures when a regex with that group matches.
Line(kw, ts, id, id2, ref, enfants, parent) ==
    [kw |-> kw, ts |-> ts,
     cap |-> [id |-> id, id2 |-> id2, ref |-> ref,
              enfants_ids |-> enfants, parent_ref |-> parent]]

Ts1 == TsText(TsFormat, 1)
TsBad == TsText("invalid", 0)

RecuLines ==
    { Line("RECU", Ts1, Empty, rB, Empty, Empty, Empty),
      Line("RECU", Ts1, rA, rB, Empty, Empty, Empty),
      Line("RECU", Ts1, Empty, Empty, Empty, Empty, Empty) }

LinkLines ==
    { Line("LINK", Ts1, rA, Empty, Empty, Empty, Empty),
      Line("LINK", Ts1, rA, Empty, rB, Empty, Empty),
      Line("LINK", Ts1, rB, Empty, rA, Empty, Empty),
      Line("LINK", Ts1, rA, Empty, rA, Empty, Empty) }

CreaLines ==
    { Line("CREA", Ts1, rA, Empty, Empty, Empty, Empty),
      Line("CREA", Ts1, rA, Empty, Empty, <<"B">>, Empty),
      Line("CREA", Ts1, rA, Empty, Empty, <<"B", ",", " ", "A">>, Empty),
      Line("CREA", Ts1, rB, Empty, Empty, <<"A", ",">>, Empty) }

TraitLines ==
    { Line("TRAIT", Ts1, rA, Empty, Empty, Empty, rB),
      Line("TRAIT", Ts1, rB, Empty, Empty, Empty, rA),
      Line("TRAIT", Ts1, rA, Empty, Empty, Empty, rA),
      Line("TRAIT", Ts1, rB, Empty, Empty, Empty, Empty) }

OtherLines ==
    { Line("", Ts1, Empty, Empty, Empty, Empty, Empty),
      Line("JUNK", Ts1, rA, Empty, Empty, Empty, Empty),
      Line("RECU", TsBad, rA, Empty, Empty, Empty, Empty) }

Lines == RecuLines \cup LinkLines \cup CreaLines \cup TraitLines \cup OtherLines

\* No forced flow type / application (None or '').
NoForce == ""

Call(line, fft, fapp) ==
    [line |-> line, force_flux_type |-> fft, force_application |-> fapp]

\* The calls of process_log_line the model makes.
Calls ==
    {Call(l, NoForce, NoForce) : l \in Lines}
      \cup {Call(Line("LINK", Ts1, rA, Empty, rB, Empty, Empty),
                 "COMMANDE", NoForce),
            Call(Line("LINK", Ts1, rA, Empty, rA, Empty, Empty),
                 "COMMANDE", NoForce),
            Call(Line("RECU", Ts1, rA, rB, Empty, Empty, Empty),
                 "COMMANDE", "Frontend"),
            Call(Line("RECU", Ts1, rA, rB, Empty, Empty, Empty),
                 NoForce, "ApplicationInexistante"),
            Call(Line("LINK", Ts1, rA, Empty, rB, Empty, Empty),
                 "INCONNU", NoForce),
            Call(Line("LINK", Ts1, rA, Empty, rB, Empty, Empty),
                 "ORDRE", "Frontend")}

\* The calls of parse_log_line the model makes: those of process_log_line,
\* lines stamped in AltFormat, and an application forced alone.
TsAlt == TsText(AltFormat, 1)

ParseCalls ==
    Calls \cup {Call(Line("LINK", TsAlt, rA, Empty, rB, Empty, Empty),
                     NoForce, NoForce),
                Call(Line("RECU", TsAlt, rA, rB, Empty, Empty, Empty),
                     NoForce, NoForce),
                Call(Line("LINK", Ts1, rA, Empty, rB, Empty, Empty),
                     NoForce, "Frontend"),
                Call(Line("LINK", TsAlt, rA, Empty, rB, Empty, Empty),
                     "ORDRE", NoForce)}

-----------------------------------------------------------------------------
(* Parser *)

\* re.search(pattern.regex, log_line)
ReSearch(pattern, line) == line.kw = pattern.regex

\* match.groupdict(): the named groups of the regex and what they captured.
GroupDict(pattern, line) ==
    [g \in pattern.groups |->
        IF g = "timestamp" THEN line.ts ELSE line.cap[g]]

\* groups.get(field, '')
GroupGet(groups, field) ==
    IF field \in DOMAIN groups THEN groups[field] ELSE Empty

\* _parse_timestamp_flexible(text, format): the declared format first, then
\* the ISO-like near-variants; fails (raises) when none applies.
NearVariants == {"%Y-%m-%dT%H:%M:%S", "%Y-%m-%d %H:%M:%S"}

ParseTimestampFlexible(text, format) ==
    IF text.layout = format \/ text.layout \in NearVariants
    THEN [ok |-> TRUE, value |-> text.instant]
    ELSE [ok |-> FALSE, value |-> 0]

\* The dict {field: groups.get(field, '') for field in fields}, in order.
FieldDict(groups, fields) ==
    [i \in 1..Len(fields) |-> [k |-> fields[i], v |-> GroupGet(groups, fields[i])]]

\* (mutant) the forced arguments are ignored.
SelectViewAll(patterns, fft, fapp) == [found |-> TRUE, view |-> patterns]

\* flux_patterns_to_test: the entries of self.patterns the forced arguments
\* select (in the order of self.patterns), and whether the forced names exist.
SelectView(patterns, fft, fapp) ==
    LET hasFlux == \E i \in 1..Len(patterns) : patterns[i].flux_type = fft
        hasBoth == \E i \in 1..Len(patterns) :
                      patterns[i].flux_type = fft /\ patterns[i].application = fapp
        hasApp == \E i \in 1..Len(patterns) : patterns[i].application = fapp
        Keep(e) ==
            IF fft # NoForce /\ fapp # NoForce
            THEN e.flux_type = fft /\ e.application = fapp
            ELSE IF fft # NoForce THEN e.flux_type = fft
            ELSE IF fapp # NoForce THEN e.application = fapp
            ELSE TRUE
        found ==
            IF fft # NoForce /\ fapp # NoForce THEN hasBoth
            ELSE IF fft # NoForce THEN hasFlux
            ELSE IF fapp # NoForce THEN hasApp
            ELSE TRUE
    IN  [found |-> found, view |-> SelectSeq(patterns, Keep)]

\* Whether the try-block of the matching loop yields a ParsedLog for this
\* entry: the regex matches, groups['timestamp'] exists and parses.
Yields(entry, line) ==
    /\ ReSearch(entry.pattern, line)
    /\ "timestamp" \in entry.pattern.groups
    /\ ParseTimestampFlexible(line.ts, entry.pattern.timestamp_format).ok

NoMatch == [matched |-> FALSE]

\* (mutant) the loop gives up at the first entry whose regex matches.
FirstMatching(entries, line) ==
    LET m == First({i \in 1..Len(entries) : ReSearch(entries[i].pattern, line)})
    IN  IF m # NULL /\ Yields(entries[m], line) THEN m ELSE NULL

\* The matching loop: the first entry of the view that yields a ParsedLog
\* (an entry whose try-block raises is passed over by `continue`).
FirstYielding(entries, line) ==
    First({i \in 1..Len(entries) : Yields(entries[i], line)})

\* parse_log_line
ParseLogLine(patterns, line, fft, fapp) ==
    LET sel == SelectView(patterns, fft, fapp)
        hit == FirstYielding(sel.view, line)
        e == sel.view[hit]
        groups == GroupDict(e.pattern, line)
    IN  IF line.kw = "" THEN NoMatch
        ELSE IF ~sel.found THEN NoMatch
        ELSE IF hit = NULL THEN NoMatch
        ELSE [matched |-> TRUE,
              timestamp |->
                ParseTimestampFlexible(line.ts, e.pattern.timestamp_format).value,
              log_type |-> e.log_type,
              application |-> e.application,
              flux_type |-> e.flux_type,
              identifier_fields |-> FieldDict(groups, e.pattern.identifier_fields),
              payload_fields |-> FieldDict(groups, e.pattern.payload_fields),
              reference_links |-> FieldDict(groups, e.pattern.reference_links),
              raw_log |-> line]

-----------------------------------------------------------------------------
(* Ingestion: process_log_line and its helpers.  A store s is the record   *)
(* [fi, le, cr] of the flux_instances, log_entries and cross_references    *)
(* tables; a row's id is its position in its table.                        *)

Store(fi, le, cr) == [fi |-> fi, le |-> le, cr |-> cr]

\* FluxInstance(flux_type_id=..., reference=..., status='ACTIF', parent_id=...)
NewFluxInstance(id, ftid, ref, parent) ==
    [id |-> id, flux_type_id |-> ftid, reference |-> ref, status |-> "ACTIF",
     parent_id |-> parent]

AddFluxInstance(s, ftid, ref, parent) ==
    [s EXCEPT !.fi = Append(@, NewFluxInstance(Len(s.fi) + 1, ftid, ref, parent))]

\* (mutant) the last non-empty value is taken.
MainReferenceLast(identifier_fields) ==
    LET hits == {i \in 1..Len(identifier_fields) : identifier_fields[i].v # Empty}
    IN  IF hits = {} THEN Empty
        ELSE identifier_fields[CHOOSE i \in hits : \A j \in hits : j <= i].v

\* The main reference: the first non-empty value of identifier_fields in
\* the order of the dict; Empty when there is none.
MainReference(identifier_fields) ==
    LET hit == First({i \in 1..Len(identifier_fields) :
                        identifier_fields[i].v # Empty})
    IN  IF hit = NULL THEN Empty ELSE identifier_fields[hit].v

\* (mutant) the instance is looked up by its reference alone.
GetOrCreateFluxInstanceAnyType(s, ftid, parsed) ==
    LET main == MainReference(parsed.identifier_fields)
        found == First({i \in 1..Len(s.fi) : s.fi[i].reference = main})
    IN  IF main = Empty THEN [ok |-> FALSE, s |-> s, id |-> NULL]
        ELSE IF found # NULL THEN [ok |-> TRUE, s |-> s, id |-> found]
        ELSE [ok |-> TRUE, s |-> AddFluxInstance(s, ftid, main, NULL),
              id |-> Len(s.fi) + 1]

\* _get_or_create_flux_instance: ok is FALSE when ValueError is raised.
GetOrCreateFluxInstance(s, ftid, parsed) ==
    LET main == MainReference(parsed.identifier_fields)
        found == First({i \in 1..Len(s.fi) :
                          s.fi[i].flux_type_id = ftid /\ s.fi[i].reference = main})
    IN  IF main = Empty THEN [ok |-> FALSE, s |-> s, id |-> NULL]
        ELSE IF found # NULL THEN [ok |-> TRUE, s |-> s, id |-> found]
        ELSE [ok |-> TRUE, s |-> AddFluxInstance(s, ftid, main, NULL),
              id |-> Len(s.fi) + 1]

\* (mutant) the two foreign keys of the LogEntry are swapped.
NewLogEntrySwapped(id, flux_instance_id, application_id, parsed) ==
    [id |-> id, flux_instance_id |-> application_id,
     application_id |-> flux_instance_id, log_type |-> parsed.log_type,
     timestamp |-> parsed.timestamp, raw_log |-> parsed.raw_log,
     parsed_data |-> [identifier_fields |-> parsed.identifier_fields,
                      payload_fields |-> parsed.payload_fields,
                      reference_links |-> parsed.reference_links]]

\* LogEntry(flux_instance_id=..., application_id=..., ...)
NewLogEntry(id, flux_instance_id, application_id, parsed) ==
    [id |-> id, flux_instance_id |-> flux_instance_id,
     application_id |-> application_id, log_type |-> parsed.log_type,
     timestamp |-> parsed.timestamp, raw_log |-> parsed.raw_log,
     parsed_data |-> [identifier_fields |-> parsed.identifier_fields,
                      payload_fields |-> parsed.payload_fields,
                      reference_links |-> parsed.reference_links]]

AddLogEntry(s, flux_instance_id, application_id, parsed) ==
    [s EXCEPT !.le = Append(@, NewLogEntry(Len(s.le) + 1, flux_instance_id,
                                           application_id, parsed))]

\* (mutant) no target counts as another flux.
IsOtherFluxNever(target_id, source_id) == FALSE

\* (mutant) the target is not compared with the source.
IsOtherFluxAlways(target_id, source_id) == target_id # NULL

\* target_flux and target_flux.id != flux_instance.id
IsOtherFlux(target_id, source_id) == target_id # NULL /\ target_id # source_id

\* (mutant) the existing_ref query finds nothing.
ExistingRefNever(cr, source_id, target_id, ref_field, ref_value) == NULL

\* The existing_ref query: a row with the same four values.
ExistingRef(cr, source_id, target_id, ref_field, ref_value) ==
    First({i \in 1..Len(cr) :
             /\ cr[i].source_flux_id = source_id
             /\ cr[i].target_flux_id = target_id
             /\ cr[i].reference_field = ref_field
             /\ cr[i].reference_value = ref_value})

\* (mutant) the target is any other instance, whatever its reference.
HandleCrossReferenceAnyTarget(s, source_id, ref_field, ref_value) ==
    LET found == First({i \in 1..Len(s.fi) : i # source_id})
        target_id == IF found = NULL THEN source_id ELSE found
    IN  IF ref_value = Empty THEN s
        ELSE IF IsOtherFlux(target_id, source_id)
                /\ ExistingRef(s.cr, source_id, target_id, ref_field, ref_value) = NULL
        THEN [s EXCEPT !.cr = Append(@,
                 [id |-> Len(s.cr) + 1, source_flux_id |-> source_id,
                  target_flux_id |-> target_id, reference_field |-> ref_field,
                  reference_value |-> ref_value])]
        ELSE s

\* One iteration of the loop of _handle_cross_references.
HandleCrossReference(s, source_id, ref_field, ref_value) ==
    LET found == First({i \in 1..Len(s.fi) : s.fi[i].reference = ref_value})
        s1 == IF found = NULL
              THEN AddFluxInstance(s, s.fi[source_id].flux_type_id, ref_value, NULL)
              ELSE s
        target_id == IF found = NULL THEN Len(s.fi) + 1 ELSE found
    IN  IF ref_value = Empty THEN s
        ELSE IF IsOtherFlux(target_id, source_id)
                /\ ExistingRef(s1.cr, source_id, target_id, ref_field, ref_value) = NULL
        THEN [s1 EXCEPT !.cr = Append(@,
                 [id |-> Len(s1.cr) + 1, source_flux_id |-> source_id,
                  target_flux_id |-> target_id, reference_field |-> ref_field,
                  reference_value |-> ref_value])]
        ELSE s1

RECURSIVE CrossReferencesFrom(_, _, _, _)
CrossReferencesFrom(s, source_id, links, i) ==
    IF i > Len(links) THEN s
    ELSE CrossReferencesFrom(
             HandleCrossReference(s, source_id, links[i].k, links[i].v),
             source_id, links, i + 1)

\* _handle_cross_references
HandleCrossReferences(s, source_id, parsed) ==
    CrossReferencesFrom(s, source_id, parsed.reference_links, 1)

\* ids_list = [id.strip() for id in enfants_ids.split(',')]
IdsList(enfants_ids) ==
    LET parts == Split(enfants_ids)
    IN  [i \in 1..Len(parts) |-> Strip(parts[i])]

\* (mutant) the children are created without a parent.
RECURSIVE AddChildrenOrphans(_, _, _, _)
AddChildrenOrphans(s, source_id, ids_list, i) ==
    IF i > Len(ids_list) THEN s
    ELSE AddChildrenOrphans(
             AddFluxInstance(s, s.fi[source_id].flux_type_id, ids_list[i], NULL),
             source_id, ids_list, i + 1)

\* The loop over ids_list: one child instance added per item.
RECURSIVE AddChildren(_, _, _, _)
AddChildren(s, source_id, ids_list, i) ==
    IF i > Len(ids_list) THEN s
    ELSE AddChildren(
             AddFluxInstance(s, s.fi[source_id].flux_type_id, ids_list[i], source_id),
             source_id, ids_list, i + 1)

\* (mutant) the current parent is not looked at.
MayBindParentAlways(parent_flux_id, current_parent_id) == parent_flux_id # NULL

\* parent_flux and not flux_instance.parent_id
MayBindParent(parent_flux_id, current_parent_id) ==
    parent_flux_id # NULL /\ current_parent_id = NULL

\* (mutant) the stage name is not looked at: any line with enfants_ids
\* creates children, any other line with parent_ref binds a parent.
HandleSubFlowsAnyStage(s, source_id, parsed) ==
    LET enfants_ids == DictGet(parsed.payload_fields, "enfants_ids", Empty)
        parent_ref == DictGet(parsed.payload_fields, "parent_ref", Empty)
        parent_flux == First({i \in 1..Len(s.fi) : s.fi[i].reference = parent_ref})
    IN  IF enfants_ids # Empty
        THEN AddChildren(s, source_id, IdsList(enfants_ids), 1)
        ELSE IF parent_ref # Empty
                /\ MayBindParent(parent_flux, s.fi[source_id].parent_id)
        THEN [s EXCEPT !.fi[source_id].parent_id = parent_flux]
        ELSE s

\* _handle_sub_flows
HandleSubFlows(s, source_id, parsed) ==
    IF parsed.log_type = "CREATION_ENFANTS"
    THEN LET enfants_ids == DictGet(parsed.payload_fields, "enfants_ids", Empty)
         IN  IF enfants_ids # Empty
             THEN AddChildren(s, source_id, IdsList(enfants_ids), 1)
             ELSE s
    ELSE IF parsed.log_type = "TRAITEMENT_ENFANT"
    THEN LET parent_ref == DictGet(parsed.payload_fields, "parent_ref", Empty)
             parent_flux == First({i \in 1..Len(s.fi) :
                                     s.fi[i].reference = parent_ref})
         IN  IF parent_ref # Empty
                /\ MayBindParent(parent_flux, s.fi[source_id].parent_id)
             THEN [s EXCEPT !.fi[source_id].parent_id = parent_flux]
             ELSE s
    ELSE s

\* (mutant) the rollback keeps the cross-references of the session.
RollbackKeepsCrossReferences(committed, session) ==
    [committed EXCEPT !.cr = session.cr]

\* (mutant) the rollback also empties the cross_references table.
RollbackDropsCrossReferences(committed, session) ==
    [committed EXCEPT !.cr = <<>>]

\* (mutant) the work of the session is kept instead of rolled back.
RollbackKeepsSession(committed, session) == session

\* session.rollback(): the store keeps what was committed before the call.
Rollback(committed, session) == committed

\* A store error (I/O failure of the database) may be raised in a step.
Faults == {"none", "instance", "log_entry", "cross_references", "sub_flows"}

\* What a call leaves: the committed store, the value returned and the
\* kind of error logged ("" when none).
Returned(s, ret, error) == [s |-> s, result |-> [ret |-> ret, error |-> error]]

\* (mutant) the except-branch returns False without rolling back.
FailedKeepingSession(committed, session, error) ==
    Returned(session, FALSE, error)

\* The except-branch: rollback, log the error, return False.
Failed(committed, session, error) ==
    Returned(Rollback(committed, session), FALSE, error)

\* process_log_line after parse_log_line has returned `parsed`: the unit of
\* work on the committed store s, with the store error `fault`.
ProcessParsed(fts, apps, s, parsed, fault) ==
    LET flux_type == First({i \in 1..Len(fts) : fts[i].name = parsed.flux_type})
        application == First({i \in 1..Len(apps) :
                                /\ apps[i].name = parsed.application
                                /\ apps[i].flux_type_id = flux_type})
        got == GetOrCreateFluxInstance(s, flux_type, parsed)
        s3 == AddLogEntry(got.s, got.id, application, parsed)
        s4 == HandleCrossReferences(s3, got.id, parsed)
        s5 == HandleSubFlows(s4, got.id, parsed)
    IN  IF ~parsed.matched THEN Returned(s, FALSE, "parse_miss")
        ELSE IF flux_type = NULL THEN Failed(s, s, "AttributeError")
        ELSE IF application = NULL THEN Returned(s, FALSE, "not_found")
        ELSE IF ~got.ok THEN Failed(s, got.s, "ValueError")
        ELSE IF fault = "instance" THEN Failed(s, got.s, "StoreError")
        ELSE IF fault = "log_entry" THEN Failed(s, s3, "StoreError")
        ELSE IF fault = "cross_references" THEN Failed(s, s4, "StoreError")
        ELSE IF fault = "sub_flows" THEN Failed(s, s5, "StoreError")
        ELSE Returned(s5, TRUE, "")

\* The catalog is fixed after construction, so what parse_log_line returns
\* for a call is a function of the call alone.
ParseOf ==
    [c \in Calls |-> ParseLogLine(CompilePatterns, c.line, c.force_flux_type,
                                  c.force_application)]

\* process_log_line
ProcessLine(fts, apps, s, call, fault) ==
    ProcessParsed(fts, apps, s, ParseOf[call], fault)

\* The lookup of _get_or_create_flux_instance: the row of the flow type
\* with the main reference of the line, NULL if there is none.
LookupFluxInstance(fi, ftid, parsed) ==
    First({i \in 1..Len(fi) :
             /\ fi[i].flux_type_id = ftid
             /\ fi[i].reference = MainReference(parsed.identifier_fields)})

\* The rest of the unit of work of a session whose lookup returned `found`,
\* on the store s it finds when it goes on: the instance is created if the
\* lookup found none, then the LogEntry, the cross-references and the
\* sub-flows, and the commit.
CommitUnit(fts, apps, s, parsed, found) ==
    LET flux_type == First({i \in 1..Len(fts) : fts[i].name = parsed.flux_type})
        application == First({i \in 1..Len(apps) :
                                /\ apps[i].name = parsed.application
                                /\ apps[i].flux_type_id = flux_type})
        s2 == IF found # NULL THEN s
              ELSE AddFluxInstance(s, flux_type,
                                   MainReference(parsed.identifier_fields), NULL)
        id == IF found # NULL THEN found ELSE Len(s.fi) + 1
        s3 == AddLogEntry(s2, id, application, parsed)
        s4 == HandleCrossReferences(s3, id, parsed)
    IN  HandleSubFlows(s4, id, parsed)

-----------------------------------------------------------------------------
(* Batch ingestion: process_log_file and process_json_logs.                *)

\* The value of a `message` key: absent (or None), the empty string, or a
\* text, which is a raw line.
BlankLine == Line("", Ts1, Empty, Empty, Empty, Empty, Empty)
Absent == [kind |-> "absent", line |-> BlankLine]
EmptyText == [kind |-> "empty", line |-> BlankLine]
Text(line) == [kind |-> "text", line |-> line]

\* A non-empty string is true, the empty string and None are false.
Truthy(message) == message.kind = "text"

\* A JSON record: its `message` and the `message` under its `_source`
\* (absent when there is no `_source`).
JsonEntry(message, source_message) ==
    [message |-> message, source_message |-> source_message]

\* entry.get('message', '') or entry.get('_source', {}).get('message', '')
LogMessage(entry) ==
    IF Truthy(entry.message) THEN entry.message ELSE entry.source_message

\* The counters of a batch, the value returned for each item, and what
\* process_log_line last returned.
NewRun(s, res) ==
    [s |-> s, total |-> 0, processed |-> 0, failed |-> 0, rets |-> <<>>,
     added |-> <<>>, result |-> res]

\* One iteration of the loop: the item is counted, process_log_line is
\* called on its message (only if the message is true; a line read from a
\* file always is), and the item is counted as processed or failed.  The
\* run keeps, item by item, what was returned and how many LogEntry rows
\* the item left in the store.
RunItem(fts, apps, run, message, fault) ==
    LET called == Truthy(message)
        r == ProcessLine(fts, apps, run.s, Call(message.line, NoForce, NoForce),
                         fault)
        ret == called /\ r.result.ret
        left == IF called THEN r.s ELSE run.s
    IN  [s |-> left,
         added |-> Append(run.added, Len(left.le) - Len(run.s.le)),
         total |-> run.total + 1,
         processed |-> IF ret THEN run.processed + 1 ELSE run.processed,
         failed |-> IF ret THEN run.failed ELSE run.failed + 1,
         rets |-> Append(run.rets, ret),
         result |-> IF called THEN r.result ELSE run.result]

\* (mutant) the loop ends at the first item that fails.
RECURSIVE RunBatchAborting(_, _, _, _, _, _)
RunBatchAborting(fts, apps, run, messages, faults, i) ==
    IF i > Len(messages) \/ run.failed > 0 THEN run
    ELSE RunBatchAborting(fts, apps,
                          RunItem(fts, apps, run, messages[i], faults[i]),
                          messages, faults, i + 1)

\* The loop over the items of a batch, from item i on.
RECURSIVE RunBatch(_, _, _, _, _, _)
RunBatch(fts, apps, run, messages, faults, i) ==
    IF i > Len(messages) THEN run
    ELSE RunBatch(fts, apps, RunItem(fts, apps, run, messages[i], faults[i]),
                  messages, faults, i + 1)

\* process_log_file on a file of the given lines.
ProcessLogFile(fts, apps, s, res, lines, faults) ==
    RunBatch(fts, apps, NewRun(s, res), [k \in 1..Len(lines) |-> Text(lines[k])],
             faults, 1)

\* process_json_logs on a list of records.
ProcessJsonLogs(fts, apps, s, res, json_data, faults) ==
    RunBatch(fts, apps, NewRun(s, res),
             [k \in 1..Len(json_data) |-> LogMessage(json_data[k])], faults, 1)

-----------------------------------------------------------------------------
(* Queries: get_flux_details and get_incomplete_flows, read-only on a      *)
(* store s.                                                                *)

\* Query.all() without ORDER BY over the row ids a filter selects: the rows
\* in row-id order.
RECURSIVE All(_)
All(hits) ==
    IF hits = {} THEN <<>>
    ELSE LET i == First(hits) IN <<i>> \o All(hits \ {i})

\* order_by(LogEntry.timestamp).all() over the LogEntry ids hits: by
\* timestamp ascending, rows of equal timestamp in row-id order.
RECURSIVE OrderByTimestamp(_, _)
OrderByTimestamp(le, hits) ==
    IF hits = {} THEN <<>>
    ELSE LET i == CHOOSE x \in hits : \A y \in hits :
                      \/ le[x].timestamp < le[y].timestamp
                      \/ le[x].timestamp = le[y].timestamp /\ x <= y
         IN  <<i>> \o OrderByTimestamp(le, hits \ {i})

\* The dict emitted for each LogEntry of a view.
LogView(apps, e) ==
    [timestamp |-> e.timestamp, application |-> apps[e.application_id].name,
     log_type |-> e.log_type, raw_log |-> e.raw_log, parsed_data |-> e.parsed_data]

\* The logs of instance id, as a view lists them.
LogsOf(apps, s, id) ==
    LET ids == OrderByTimestamp(s.le, {i \in 1..Len(s.le) :
                                         s.le[i].flux_instance_id = id})
    IN  [k \in 1..Len(ids) |-> LogView(apps, s.le[ids[k]])]

NotFound == [found |-> FALSE]

\* (mutant) the parent of the parent is resolved when there is one.
ParentOfGrandparent(fi, flux) ==
    LET parent == IF fi[flux].parent_id = NULL THEN NULL
                  ELSE First({i \in 1..Len(fi) : fi[i].id = fi[flux].parent_id})
        grandparent == IF parent = NULL \/ fi[parent].parent_id = NULL THEN NULL
                       ELSE First({i \in 1..Len(fi) :
                                     fi[i].id = fi[parent].parent_id})
    IN  IF grandparent # NULL THEN grandparent ELSE parent

\* (mutant) the parent is never resolved.
ParentOfNone(fi, flux) == NULL

\* The row of the parent of instance flux (NULL when parent_id is null or
\* the row is not found): is_subflow holds when this is a row.
ParentOf(fi, flux) ==
    IF fi[flux].parent_id = NULL THEN NULL
    ELSE First({i \in 1..Len(fi) : fi[i].id = fi[flux].parent_id})

\* get_flux_details(reference)
GetFluxDetails(fts, apps, s, reference) ==
    LET flux == First({i \in 1..Len(s.fi) : s.fi[i].reference = reference})
        parent == ParentOf(s.fi, flux)
        is_subflow == parent # NULL
        target_flux == IF is_subflow THEN parent ELSE flux
        cross_refs == All({x \in 1..Len(s.cr) :
                             s.cr[x].source_flux_id = target_flux})
        children == All({i \in 1..Len(s.fi) : s.fi[i].parent_id = target_flux})
    IN  IF flux = NULL THEN NotFound
        ELSE [found |-> TRUE,
              flux |-> [id |-> s.fi[target_flux].id,
                        reference |-> s.fi[target_flux].reference,
                        status |-> s.fi[target_flux].status,
                        flux_type |-> fts[s.fi[target_flux].flux_type_id].name],
              logs |-> LogsOf(apps, s, target_flux),
              cross_references |->
                [k \in 1..Len(cross_refs) |->
                   [target_reference |->
                      s.fi[s.cr[cross_refs[k]].target_flux_id].reference,
                    reference_field |-> s.cr[cross_refs[k]].reference_field,
                    reference_value |-> s.cr[cross_refs[k]].reference_value]],
              children |->
                [k \in 1..Len(children) |->
                   [reference |-> s.fi[children[k]].reference,
                    status |-> s.fi[children[k]].status]],
              subflow_info |->
                IF is_subflow
                THEN [is_subflow |-> TRUE, requested_reference |-> reference,
                      subflow_details |-> [id |-> s.fi[flux].id,
                                           reference |-> s.fi[flux].reference,
                                           status |-> s.fi[flux].status],
                      parent_reference |-> s.fi[target_flux].reference,
                      subflow_logs |-> LogsOf(apps, s, flux)]
                ELSE [is_subflow |-> FALSE, requested_reference |-> reference]]

\* round(x, 1) of x = 100 * completed / total, in tenths of a percent.  The
\* quotient is a float: when it lies half-way between two tenths the
\* float is on either side of the tie, and tie_up tells which.
RoundTenths(completed, total, tie_up) ==
    LET floor == (1000 * completed) \div total
        twice == 2 * ((1000 * completed) % total)
    IN  IF twice > total \/ (twice = total /\ tie_up) THEN floor + 1 ELSE floor

\* completion_rate 100 (of the else-branch, and of round when it gives 100.0).
Full == 1000

\* completion_rate = round((completed_required / total_required) * 100, 1)
\*                   if total_required > 0 else 100
CompletionRate(total_required, missing, tie_up) ==
    IF total_required > 0
    THEN RoundTenths(total_required - missing, total_required, tie_up)
    ELSE Full

\* (mutant) sub-flows are not excluded.
IsTopLevelAlways(row) == TRUE

\* query.filter(FluxInstance.parent_id.is_(None))
IsTopLevel(row) == row.parent_id = NULL

\* The last log of an instance: order_by(timestamp.desc()).first() over the
\* LogEntry ids hits, rows of equal timestamp in row-id order.
LastLog(le, hits) ==
    IF hits = {} THEN NULL
    ELSE CHOOSE x \in hits : \A y \in hits :
             \/ le[x].timestamp > le[y].timestamp
             \/ le[x].timestamp = le[y].timestamp /\ x <= y

\* incomplete_info of instance i for the flow type configured by c, with
\* the required stages it misses.
IncompleteInfo(c, s, i, tie_up) ==
    LET logs == {e \in 1..Len(s.le) : s.le[e].flux_instance_id = s.fi[i].id}
        log_types_present == {s.le[e].log_type : e \in logs}
        Missing(stage) == stage \notin log_types_present
        missing_required_stages == SelectSeq(c.required_steps, Missing)
        last_log == LastLog(s.le, logs)
    IN  [reference |-> s.fi[i].reference,
         status |-> s.fi[i].status,
         missing_stages |-> SelectSeq(c.required_steps \o c.optional_steps, Missing),
         missing_required_stages |-> missing_required_stages,
         present_stages |-> log_types_present,
         required_stages |-> c.required_steps,
         optional_stages |-> c.optional_steps,
         last_activity |-> IF last_log # NULL THEN s.le[last_log].timestamp ELSE NULL,
         last_log_type |-> IF last_log # NULL THEN s.le[last_log].log_type ELSE "",
         children_count |-> Cardinality({k \in 1..Len(s.fi) :
                                           s.fi[k].parent_id = s.fi[i].id}),
         completion_rate |-> CompletionRate(Len(c.required_steps),
                                            Len(missing_required_stages), tie_up)]

\* (mutant) only the instances that have a LogEntry are selected.
IncompleteListLogged(c, fts, s, tie_up) ==
    LET flux_type == First({i \in 1..Len(fts) : fts[i].name = c.name})
        selected == All({i \in 1..Len(s.fi) :
                           /\ s.fi[i].flux_type_id = flux_type
                           /\ IsTopLevel(s.fi[i])
                           /\ \E e \in 1..Len(s.le) :
                                 s.le[e].flux_instance_id = s.fi[i].id})
        infos == [k \in 1..Len(selected) |->
                    IncompleteInfo(c, s, selected[k], tie_up)]
    IN  IF c.required_steps = <<>> \/ flux_type = NULL THEN <<>>
        ELSE SelectSeq(infos, LAMBDA info : info.missing_required_stages # <<>>)

\* incomplete_list of the flow type configured by c: the selected instances
\* that miss a required stage, oldest first (instances are created in
\* row-id order).
IncompleteList(c, fts, s, tie_up) ==
    LET flux_type == First({i \in 1..Len(fts) : fts[i].name = c.name})
        selected == All({i \in 1..Len(s.fi) :
                           /\ s.fi[i].flux_type_id = flux_type
                           /\ IsTopLevel(s.fi[i])})
        infos == [k \in 1..Len(selected) |->
                    IncompleteInfo(c, s, selected[k], tie_up)]
    IN  IF c.required_steps = <<>> \/ flux_type = NULL THEN <<>>
        ELSE SelectSeq(infos, LAMBDA info : info.missing_required_stages # <<>>)

\* get_incomplete_flows(): the dict flow type name -> incomplete_list, in
\* the order of the configuration, without the empty lists.
GetIncompleteFlows(cfg, fts, s, tie_up) ==
    SelectSeq([f \in 1..Len(cfg) |->
                 [k |-> cfg[f].name, v |-> IncompleteList(cfg[f], fts, s, tie_up)]],
              LAMBDA item : item.v # <<>>)

-----------------------------------------------------------------------------
(* get_all_linked_flows and the get-flux command (cmd_get_flux).           *)

\* The flux a traversal starts from: the one get_flux_details resolves (the
\* parent when the requested reference is a sub-flow), NULL if none.
StartFlux(s, reference) ==
    LET flux == First({i \in 1..Len(s.fi) : s.fi[i].reference = reference})
        parent == ParentOf(s.fi, flux)
    IN  IF flux = NULL THEN NULL
        ELSE IF parent # NULL THEN parent ELSE flux

\* (mutant) only the outgoing edges are followed.
NeighboursOutgoing(cr, id) ==
    LET out == All({x \in 1..Len(cr) : cr[x].source_flux_id = id})
    IN  [k \in 1..Len(out) |-> cr[out[k]].target_flux_id]

\* The instances one edge away from instance id: the targets of its
\* outgoing edges, then the sources of its incoming edges.
Neighbours(cr, id) ==
    LET out == All({x \in 1..Len(cr) : cr[x].source_flux_id = id})
        inc == All({x \in 1..Len(cr) : cr[x].target_flux_id = id})
    IN  [k \in 1..Len(out) |-> cr[out[k]].target_flux_id]
          \o [k \in 1..Len(inc) |-> cr[inc[k]].source_flux_id]

\* A breadth-first traversal: the queue and the visited ids, in the order
\* of their discovery.
Traversal(queue, visited) == [queue |-> queue, visited |-> visited]

\* The ids not yet visited are marked visited and queued.
RECURSIVE Enqueue(_, _)
Enqueue(t, ids) ==
    IF ids = <<>> THEN t
    ELSE LET id == Head(ids)
             seen == \E k \in 1..Len(t.visited) : t.visited[k] = id
         IN  Enqueue(IF seen THEN t
                     ELSE Traversal(Append(t.queue, id), Append(t.visited, id)),
                     Tail(ids))

\* One iteration: the head of the queue is taken and its neighbours queued.
Visit(cr, t) ==
    Enqueue(Traversal(Tail(t.queue), t.visited), Neighbours(cr, Head(t.queue)))

\* The traversal run until the queue is empty: the ids visited.
RECURSIVE Traverse(_, _)
Traverse(cr, t) == IF t.queue = <<>> THEN t.visited ELSE Traverse(cr, Visit(cr, t))

\* get_all_linked_flows(reference): the instances of the closure.
GetAllLinkedFlows(s, reference) ==
    LET start == StartFlux(s, reference)
    IN  IF start = NULL THEN NotFound
        ELSE [found |-> TRUE,
              linked_flows |-> Traverse(s.cr, Traversal(<<start>>, <<start>>))]

\* details.get(key) and len(details[key]) > 0
HasItems(details, key) == key \in DOMAIN details /\ Len(details[key]) > 0

\* has_cross_references of cmd_get_flux
HasCrossReferences(details) ==
    HasItems(details, "cross_references") \/ HasItems(details, "incoming_references")

\* cmd_get_flux: what the command prints for a reference.
CmdGetFlux(fts, apps, s, reference) ==
    LET details == GetFluxDetails(fts, apps, s, reference)
    IN  IF ~details.found THEN [printed |-> "not_found"]
        ELSE IF HasCrossReferences(details)
        THEN [printed |-> "linked_flows",
              linked_flows_data |-> GetAllLinkedFlows(s, reference)]
        ELSE [printed |-> "details", details |-> details]

-----------------------------------------------------------------------------
(* The state machine *)

Committed == Store(flux_instances, log_entries, cross_references)

\* Nothing returned yet by parse_log_line, by a query, by a batch.
NoParsed == [call |-> Call(Line("", Ts1, Empty, Empty, Empty, Empty, Empty),
                           NoForce, NoForce),
             out |-> NoMatch]
NoView == [op |-> "none"]
NoStats == [op |-> "none"]

\* The workers that run process_log_line on sessions of their own: none
\* is at work.
Workers == {1, 2}
Idle == [pc |-> "idle"]
NoSessions == [w \in Workers |-> Idle]

\* The clock (utcnow) and the created_at and updated_at columns of the
\* flux_instances rows, row by row; the columns are kept in SpecStore only.
NoTimes == [now |-> 0, created_at |-> <<>>, updated_at |-> <<>>]

\* The tracker constructed on the configuration Config, on an empty store.
Init ==
    /\ flux_types = InitDatabase(<<>>, <<>>, Config).flux_types
    /\ applications = InitDatabase(<<>>, <<>>, Config).applications
    /\ flux_instances = <<>>
    /\ log_entries = <<>>
    /\ cross_references = <<>>
    /\ result = [ret |-> TRUE, error |-> ""]
    /\ phase = "ready"
    /\ self_config = Config
    /\ self_patterns = CompilePatterns
    /\ parsed_log = NoParsed
    /\ view = NoView
    /\ stats = NoStats
    /\ sessions = NoSessions
    /\ times = NoTimes

\* One call of process_log_line, made while fewer than max LogEntries are
\* stored.
Ingest(max) ==
    /\ Len(log_entries) < max
    /\ \E call \in Calls :
         \E r \in {ProcessLine(flux_types, applications, Committed, call, fault) :
                      fault \in Faults} :
             /\ flux_instances' = r.s.fi
             /\ log_entries' = r.s.le
             /\ cross_references' = r.s.cr
             /\ result' = r.result

ProcessLogLine ==
    /\ Ingest(MaxLogs)
    /\ UNCHANGED <<flux_types, applications, phase, self_config, self_patterns,
                   parsed_log, view, stats, sessions, times>>

Next == ProcessLogLine

Spec == Init /\ [][Next]_vars

-----------------------------------------------------------------------------
(* Construction and parsing: a tracker constructed on any configuration of *)
(* Catalogs, then calls of parse_log_line.                                 *)

InitParse ==
    /\ flux_types = <<>>
    /\ applications = <<>>
    /\ flux_instances = <<>>
    /\ log_entries = <<>>
    /\ cross_references = <<>>
    /\ result = [ret |-> TRUE, error |-> ""]
    /\ phase = "new"
    /\ self_config = <<>>
    /\ self_patterns = <<>>
    /\ parsed_log = NoParsed
    /\ view = NoView
    /\ stats = NoStats
    /\ sessions = NoSessions
    /\ times = NoTimes

\* __init__: the configuration is loaded, compiled and the flow types and
\* applications are stored.
Construct ==
    /\ phase = "new"
    /\ \E cfg \in Catalogs :
         /\ self_config' = cfg
         /\ self_patterns' = Compile(cfg)
         /\ flux_types' = InitDatabase(flux_types, applications, cfg).flux_types
         /\ applications' = InitDatabase(flux_types, applications, cfg).applications
    /\ phase' = "ready"
    /\ UNCHANGED <<flux_instances, log_entries, cross_references, result,
                   parsed_log, view, stats, sessions, times>>

\* One call of parse_log_line on the constructed tracker.
DoParseLogLine ==
    /\ phase = "ready"
    /\ \E call \in ParseCalls :
         parsed_log' = [call |-> call,
                        out |-> ParseLogLine(self_patterns, call.line,
                                             call.force_flux_type,
                                             call.force_application)]
    /\ UNCHANGED <<flux_types, applications, flux_instances, log_entries,
                   cross_references, result, phase, self_config, self_patterns,
                   view, stats, sessions, times>>

NextParse == Construct \/ DoParseLogLine

SpecParse == InitParse /\ [][NextParse]_vars

-----------------------------------------------------------------------------
(* Ingestion and queries: the tracker of SpecQuery ingests at most         *)
(* MaxQueryLogs lines and answers get_flux_details and                     *)
(* get_incomplete_flows on the store it has.                               *)

MaxQueryLogs == 2

\* Config with no required stage for the flow type ORDRE; its patterns are
\* those of Config.
ConfigNoRequired == [Config EXCEPT ![1].required_steps = <<>>]

QueryConfigs == {Config, ConfigNoRequired}

\* The references asked for: those of the lines and one that no line has.
rC == <<"C">>
QueryRefs == Refs \cup {rC}

InitQuery ==
    /\ self_config \in QueryConfigs
    /\ flux_types = InitDatabase(<<>>, <<>>, self_config).flux_types
    /\ applications = InitDatabase(<<>>, <<>>, self_config).applications
    /\ flux_instances = <<>>
    /\ log_entries = <<>>
    /\ cross_references = <<>>
    /\ result = [ret |-> TRUE, error |-> ""]
    /\ phase = "ready"
    /\ self_patterns = Compile(self_config)
    /\ parsed_log = NoParsed
    /\ view = NoView
    /\ stats = NoStats
    /\ sessions = NoSessions
    /\ times = NoTimes

IngestBeforeQuery ==
    /\ Ingest(MaxQueryLogs)
    /\ view' = NoView
    /\ UNCHANGED <<flux_types, applications, phase, self_config, self_patterns,
                   parsed_log, stats, sessions, times>>

\* (mutant) closing the session of a query deletes the cross-references.
SessionCloseDropping(s) == [s EXCEPT !.cr = <<>>]

\* finally: session.close() of a query.  The query added, changed and
\* committed nothing: the store is the one that was read.
SessionClose(s) == s

\* The store after a query.
StoreAfterQuery ==
    /\ flux_instances' = SessionClose(Committed).fi
    /\ log_entries' = SessionClose(Committed).le
    /\ cross_references' = SessionClose(Committed).cr

\* One call of get_flux_details.
DoGetFluxDetails ==
    /\ \E reference \in QueryRefs :
         view' = [op |-> "get_flux_details", reference |-> reference,
                  ret |-> GetFluxDetails(flux_types, applications, Committed,
                                         reference)]
    /\ StoreAfterQuery
    /\ UNCHANGED <<flux_types, applications, result, phase, self_config,
                   self_patterns, parsed_log, stats, sessions, times>>

\* One call of get_incomplete_flows().
DoGetIncompleteFlows ==
    /\ \E tie_up \in BOOLEAN :
         view' = [op |-> "get_incomplete_flows",
                  ret |-> GetIncompleteFlows(self_config, flux_types, Committed,
                                             tie_up)]
    /\ StoreAfterQuery
    /\ UNCHANGED <<flux_types, applications, result, phase, self_config,
                   self_patterns, parsed_log, stats, sessions, times>>

NextQuery == IngestBeforeQuery \/ DoGetFluxDetails \/ DoGetIncompleteFlows

SpecQuery == InitQuery /\ [][NextQuery]_vars

-----------------------------------------------------------------------------
(* The completion rate of the diagnostics as a function of the number of   *)
(* required stages and of the number of those that are missing.            *)

MaxRequired == 2001
MaxMissing == 2

InitRate ==
    /\ flux_types = InitDatabase(<<>>, <<>>, Config).flux_types
    /\ applications = InitDatabase(<<>>, <<>>, Config).applications
    /\ flux_instances = <<>>
    /\ log_entries = <<>>
    /\ cross_references = <<>>
    /\ result = [ret |-> TRUE, error |-> ""]
    /\ phase = "ready"
    /\ self_config = Config
    /\ self_patterns = CompilePatterns
    /\ parsed_log = NoParsed
    /\ view \in {[op |-> "required_steps", total_required |-> t, missing |-> m] :
                    t \in 0..MaxRequired, m \in 0..MaxMissing}
    /\ view.missing <= view.total_required
    /\ stats = NoStats
    /\ sessions = NoSessions
    /\ times = NoTimes

\* The completion rate computed for an instance of a flow type with
\* total_required required stages, `missing` of them missing.
DoCompletionRate ==
    /\ view.op = "required_steps"
    /\ \E tie_up \in BOOLEAN :
         view' = [op |-> "completion_rate",
                  total_required |-> view.total_required,
                  missing |-> view.missing,
                  completion_rate |-> CompletionRate(view.total_required,
                                                     view.missing, tie_up)]
    /\ UNCHANGED <<flux_types, applications, flux_instances, log_entries,
                   cross_references, result, phase, self_config, self_patterns,
                   parsed_log, stats, sessions, times>>

NextRate == DoCompletionRate

SpecRate == InitRate /\ [][NextRate]_vars

-----------------------------------------------------------------------------
(* Batches: a file or a list of JSON records of at most MaxBatch items,    *)
(* run while fewer than MaxBatchLogs LogEntries are stored.                *)

MaxBatch == 2
MaxBatchLogs == 1

\* The lines of the files: an accepted line, a cross-referencing one, a
\* line no pattern matches, a line that is blank after strip.
FileLines ==
    { Line("RECU", Ts1, rA, rB, Empty, Empty, Empty),
      Line("LINK", Ts1, rA, Empty, rB, Empty, Empty),
      Line("JUNK", Ts1, rA, Empty, Empty, Empty, Empty),
      BlankLine }

\* The JSON records: a message, no message at all, an empty message, a
\* message only under _source, an empty message and one under _source.
JsonEntries ==
    { JsonEntry(Text(Line("RECU", Ts1, rA, rB, Empty, Empty, Empty)), Absent),
      JsonEntry(Absent, Absent),
      JsonEntry(EmptyText, Absent),
      JsonEntry(Absent, Text(Line("LINK", Ts1, rA, Empty, rB, Empty, Empty))),
      JsonEntry(EmptyText, Text(Line("JUNK", Ts1, rA, Empty, Empty, Empty, Empty))) }

\* The sequences of at most MaxBatch items of a set.
Batches(items) == UNION {[1..n -> items] : n \in 0..MaxBatch}

\* A store error may hit the ingestion of an item.
BatchFaults == {"none", "sub_flows"}

\* A batch has run: the store and `result` are what it leaves, and stats
\* what it returns together with its input.
BatchRan(op, items, faults, run) ==
    /\ flux_instances' = run.s.fi
    /\ log_entries' = run.s.le
    /\ cross_references' = run.s.cr
    /\ result' = run.result
    /\ stats' = [op |-> op, items |-> items, faults |-> faults,
                 total |-> run.total, processed |-> run.processed,
                 failed |-> run.failed, rets |-> run.rets,
                 added |-> run.added]
    /\ UNCHANGED <<flux_types, applications, phase, self_config, self_patterns,
                   parsed_log, view, sessions, times>>

\* One call of process_log_file.
DoProcessLogFile ==
    /\ Len(log_entries) < MaxBatchLogs
    /\ \E lines \in Batches(FileLines) :
         \E faults \in [1..Len(lines) -> BatchFaults] :
            BatchRan("process_log_file", lines, faults,
                     ProcessLogFile(flux_types, applications, Committed, result,
                                    lines, faults))

\* One call of process_json_logs.
DoProcessJsonLogs ==
    /\ Len(log_entries) < MaxBatchLogs
    /\ \E json_data \in Batches(JsonEntries) :
         \E faults \in [1..Len(json_data) -> BatchFaults] :
            BatchRan("process_json_logs", json_data, faults,
                     ProcessJsonLogs(flux_types, applications, Committed, result,
                                     json_data, faults))

NextBatch == DoProcessLogFile \/ DoProcessJsonLogs

SpecBatch == Init /\ [][NextBatch]_vars

-----------------------------------------------------------------------------
(* Linked flows: the tracker ingests at most MaxLinkedLogs lines; a call   *)
(* of get_all_linked_flows runs its traversal one iteration at a time and  *)
(* returns when the queue is empty; cmd_get_flux prints a view.            *)

MaxLinkedLogs == 2

Traversing == view.op = "get_all_linked_flows" /\ view.pc = "traversing"

IngestBeforeLinked ==
    /\ ~Traversing
    /\ Ingest(MaxLinkedLogs)
    /\ view' = NoView
    /\ UNCHANGED <<flux_types, applications, phase, self_config, self_patterns,
                   parsed_log, stats, sessions, times>>

\* A call of get_all_linked_flows: the start flux is resolved and queued.
DoStartLinked ==
    /\ ~Traversing
    /\ \E reference \in QueryRefs :
         \E start \in {StartFlux(Committed, reference)} :
            view' = [op |-> "get_all_linked_flows", reference |-> reference,
                     pc |-> IF start = NULL THEN "returned" ELSE "traversing",
                     found |-> start # NULL,
                     t |-> IF start = NULL THEN Traversal(<<>>, <<>>)
                           ELSE Traversal(<<start>>, <<start>>)]
    /\ UNCHANGED <<flux_types, applications, flux_instances, log_entries,
                   cross_references, result, phase, self_config, self_patterns,
                   parsed_log, stats, sessions, times>>

\* One iteration of the traversal.
LinkedVisit ==
    /\ Traversing
    /\ view.t.queue # <<>>
    /\ view' = [view EXCEPT !.t = Visit(cross_references, @)]
    /\ UNCHANGED <<flux_types, applications, flux_instances, log_entries,
                   cross_references, result, phase, self_config, self_patterns,
                   parsed_log, stats, sessions, times>>

\* The queue is empty: the call returns.
LinkedReturn ==
    /\ Traversing
    /\ view.t.queue = <<>>
    /\ view' = [view EXCEPT !.pc = "returned"]
    /\ UNCHANGED <<flux_types, applications, flux_instances, log_entries,
                   cross_references, result, phase, self_config, self_patterns,
                   parsed_log, stats, sessions, times>>

\* One run of the get-flux command.
DoCmdGetFlux ==
    /\ ~Traversing
    /\ \E reference \in QueryRefs :
         view' = [op |-> "cmd_get_flux", reference |-> reference,
                  out |-> CmdGetFlux(flux_types, applications, Committed,
                                     reference)]
    /\ UNCHANGED <<flux_types, applications, flux_instances, log_entries,
                   cross_references, result, phase, self_config, self_patterns,
                   parsed_log, stats, sessions, times>>

NextLinked ==
    \/ IngestBeforeLinked
    \/ DoStartLinked
    \/ LinkedVisit
    \/ LinkedReturn
    \/ DoCmdGetFlux

\* A traversal that has started is run on: nothing else runs meanwhile.
SpecLinked ==
    Init /\ [][NextLinked]_vars /\ WF_vars(LinkedVisit) /\ WF_vars(LinkedReturn)

-----------------------------------------------------------------------------
(* Concurrent ingestion: two workers call process_log_line on the same     *)
(* store, each on a session of its own, while fewer than                   *)
(* MaxConcurrentLogs lines are stored or in progress.  A step of a worker  *)
(* is what it does between two accesses to the flux_instances table that   *)
(* the other worker can see: up to the lookup of                           *)
(* _get_or_create_flux_instance, then the rest up to the commit.           *)

MaxConcurrentLogs == 2

ConcurrentCalls ==
    { Call(Line("RECU", Ts1, rA, rB, Empty, Empty, Empty), NoForce, NoForce),
      Call(Line("RECU", Ts1, Empty, rB, Empty, Empty, Empty), NoForce, NoForce),
      Call(Line("LINK", Ts1, rA, Empty, rB, Empty, Empty), NoForce, NoForce),
      Call(Line("JUNK", Ts1, rA, Empty, Empty, Empty, Empty), NoForce, NoForce) }

InProgress == {w \in Workers : sessions[w].pc = "looked_up"}

\* Worker w calls process_log_line: the line is parsed, the flow type and
\* the application are read and the instance is looked up.  A call that
\* fails does so here and returns False.
WorkerLookup(w) ==
    /\ sessions[w].pc # "looked_up"
    /\ Len(log_entries) + Cardinality(InProgress) < MaxConcurrentLogs
    /\ \E call \in ConcurrentCalls :
         \E r \in {ProcessLine(flux_types, applications, Committed, call, "none")} :
            IF r.result.ret
            THEN /\ sessions' = [sessions EXCEPT ![w] =
                        [pc |-> "looked_up", call |-> call,
                         found |-> LookupFluxInstance(
                                       flux_instances,
                                       First({i \in 1..Len(flux_types) :
                                                flux_types[i].name
                                                   = ParseOf[call].flux_type}),
                                       ParseOf[call])]]
                 /\ UNCHANGED result
            ELSE /\ sessions' = [sessions EXCEPT ![w] =
                        [pc |-> "returned", call |-> call, ret |-> FALSE]]
                 /\ result' = r.result
    /\ UNCHANGED <<flux_types, applications, flux_instances, log_entries,
                   cross_references, phase, self_config, self_patterns,
                   parsed_log, view, stats, times>>

\* Worker w goes on to the commit and returns True.
WorkerCommit(w) ==
    /\ sessions[w].pc = "looked_up"
    /\ \E s \in {CommitUnit(flux_types, applications, Committed,
                             ParseOf[sessions[w].call], sessions[w].found)} :
         /\ flux_instances' = s.fi
         /\ log_entries' = s.le
         /\ cross_references' = s.cr
    /\ result' = [ret |-> TRUE, error |-> ""]
    /\ sessions' = [sessions EXCEPT ![w] =
                       [pc |-> "returned", call |-> sessions[w].call, ret |-> TRUE]]
    /\ UNCHANGED <<flux_types, applications, phase, self_config, self_patterns,
                   parsed_log, view, stats, times>>

NextConcurrent == \E w \in Workers : WorkerLookup(w) \/ WorkerCommit(w)

SpecConcurrent == Init /\ [][NextConcurrent]_vars

-----------------------------------------------------------------------------
(* The store over time: process_log_line is called at the instants         *)
(* 1..MaxClock, and a tracker may be constructed again on the same store   *)
(* with the same configuration (as each command of cli.py does).           *)

MaxClock == 2

\* (mutant) an update also resets created_at.
StampRecreated(t, fi, fi2) ==
    [now |-> t.now,
     created_at |-> [i \in 1..Len(fi2) |->
                       IF i <= Len(fi) /\ fi2[i] = fi[i] THEN t.created_at[i]
                       ELSE t.now],
     updated_at |-> [i \in 1..Len(fi2) |->
                       IF i <= Len(fi) /\ fi2[i] = fi[i] THEN t.updated_at[i]
                       ELSE t.now]]

\* The date columns once the table fi has become fi2 at the instant t.now:
\* created_at and updated_at default to utcnow in an inserted row, and
\* updated_at is set to utcnow (onupdate) in a row an UPDATE is emitted
\* for, that is a row with a changed column.
Stamp(t, fi, fi2) ==
    [now |-> t.now,
     created_at |-> [i \in 1..Len(fi2) |->
                       IF i <= Len(fi) THEN t.created_at[i] ELSE t.now],
     updated_at |-> [i \in 1..Len(fi2) |->
                       IF i <= Len(fi) /\ fi2[i] = fi[i] THEN t.updated_at[i]
                       ELSE t.now]]

InitStore ==
    /\ flux_types = InitDatabase(<<>>, <<>>, Config).flux_types
    /\ applications = InitDatabase(<<>>, <<>>, Config).applications
    /\ flux_instances = <<>>
    /\ log_entries = <<>>
    /\ cross_references = <<>>
    /\ result = [ret |-> TRUE, error |-> ""]
    /\ phase = "ready"
    /\ self_config = Config
    /\ self_patterns = CompilePatterns
    /\ parsed_log = NoParsed
    /\ view = NoView
    /\ stats = NoStats
    /\ sessions = NoSessions
    /\ times = [now |-> 1, created_at |-> <<>>, updated_at |-> <<>>]

\* One call of process_log_line at the instant times.now; time passes.
IngestAt ==
    /\ times.now <= MaxClock
    /\ \E call \in Calls :
         \E r \in {ProcessLine(flux_types, applications, Committed, call, fault) :
                      fault \in Faults} :
             /\ flux_instances' = r.s.fi
             /\ log_entries' = r.s.le
             /\ cross_references' = r.s.cr
             /\ result' = r.result
             /\ times' = [Stamp(times, flux_instances, r.s.fi)
                             EXCEPT !.now = times.now + 1]
    /\ view' = NoView
    /\ UNCHANGED <<flux_types, applications, phase, self_config, self_patterns,
                   parsed_log, stats, sessions>>

\* __init__ on the configuration and the store of the tracker.
ConstructAgain ==
    /\ self_patterns' = Compile(self_config)
    /\ flux_types' = InitDatabase(flux_types, applications, self_config).flux_types
    /\ applications' =
          InitDatabase(flux_types, applications, self_config).applications
    /\ phase' = "ready"
    /\ view' = [op |-> "__init__"]
    /\ UNCHANGED <<flux_instances, log_entries, cross_references, result,
                   self_config, parsed_log, stats, sessions, times>>

NextStore == IngestAt \/ ConstructAgain

SpecStore == InitStore /\ [][NextStore]_vars

-----------------------------------------------------------------------------
(* Stages and the tree: the tracker of SpecStages is constructed on a      *)
(* configuration in which the stage COMMANDE_RECU also captures            *)
(* enfants_ids and parent_ref, and ingests at most MaxStageLogs lines.     *)

MaxStageLogs == 2

\* Config with the payload fields enfants_ids and parent_ref added to the
\* stage COMMANDE_RECU.
ConfigStages ==
    [Config EXCEPT
       ![2].applications[1].patterns[1].payload_fields =
           <<"enfants_ids", "parent_ref">>,
       ![2].applications[1].patterns[1].groups =
           @ \cup {"enfants_ids", "parent_ref"}]

\* Lines of the stage COMMANDE_RECU that carry a list of children and the
\* reference of a parent.
StageLines ==
    { Line("RECU", Ts1, rA, Empty, Empty, <<"B">>, rB),
      Line("RECU", Ts1, rB, Empty, Empty, <<"A">>, rA),
      Line("RECU", Ts1, rA, Empty, Empty, Empty, Empty) }

StageCalls ==
    {Call(l, NoForce, NoForce) :
        l \in StageLines \cup CreaLines \cup TraitLines \cup OtherLines}

\* What parse_log_line returns for a call on the patterns of ConfigStages.
ParseStagesOf ==
    [c \in StageCalls |-> ParseLogLine(Compile(ConfigStages), c.line,
                                       c.force_flux_type, c.force_application)]

InitStages ==
    /\ flux_types = InitDatabase(<<>>, <<>>, ConfigStages).flux_types
    /\ applications = InitDatabase(<<>>, <<>>, ConfigStages).applications
    /\ flux_instances = <<>>
    /\ log_entries = <<>>
    /\ cross_references = <<>>
    /\ result = [ret |-> TRUE, error |-> ""]
    /\ phase = "ready"
    /\ self_config = ConfigStages
    /\ self_patterns = Compile(ConfigStages)
    /\ parsed_log = NoParsed
    /\ view = NoView
    /\ stats = NoStats
    /\ sessions = NoSessions
    /\ times = NoTimes

\* One call of process_log_line; parsed_log keeps the call and what
\* parse_log_line returned for it.
IngestStage ==
    /\ Len(log_entries) < MaxStageLogs
    /\ \E call \in StageCalls :
         \E r \in {ProcessParsed(flux_types, applications, Committed,
                                 ParseStagesOf[call], fault) : fault \in Faults} :
             /\ flux_instances' = r.s.fi
             /\ log_entries' = r.s.le
             /\ cross_references' = r.s.cr
             /\ result' = r.result
             /\ parsed_log' = [call |-> call, out |-> ParseStagesOf[call]]
    /\ UNCHANGED <<flux_types, applications, phase, self_config, self_patterns,
                   view, stats, sessions, times>>

NextStages == IngestStage

SpecStages == InitStages /\ [][NextStages]_vars

-----------------------------------------------------------------------------
(* get_flux_details on any table of FluxInstances: the tracker of          *)
(* SpecDetails is constructed on a database that holds at most             *)
(* MaxDetailRows instances, written by earlier runs or by other programs;  *)
(* parent_id is a plain integer column there, and may name no row.         *)

MaxDetailRows == 3

\* The flux_instances tables of n rows: ids 1..n, references of Refs, and
\* any parent_id up to MaxDetailRows: null, of a row, or (in the tables of
\* fewer rows) of no row.
DetailTables(n) ==
    { [i \in 1..n |-> NewFluxInstance(i, Len(Config), refs[i], parents[i])] :
         refs \in [1..n -> Refs], parents \in [1..n -> 0..MaxDetailRows] }

InitDetails ==
    /\ flux_types = InitDatabase(<<>>, <<>>, Config).flux_types
    /\ applications = InitDatabase(<<>>, <<>>, Config).applications
    /\ flux_instances \in UNION {DetailTables(n) : n \in 0..MaxDetailRows}
    /\ log_entries = <<>>
    /\ cross_references = <<>>
    /\ result = [ret |-> TRUE, error |-> ""]
    /\ phase = "ready"
    /\ self_config = Config
    /\ self_patterns = CompilePatterns
    /\ parsed_log = NoParsed
    /\ view = NoView
    /\ stats = NoStats
    /\ sessions = NoSessions
    /\ times = NoTimes

NextDetails == DoGetFluxDetails

SpecDetails == InitDetails /\ [][NextDetails]_vars

-----------------------------------------------------------------------------
(* Properties *)

FI == flux_instances
LE == log_entries
CR == cross_references

\* C1: at most one FluxInstance exists for each (flux_type_id, reference).
UniquePerTypeAndReference ==
    \A i, j \in 1..Len(FI) :
        (FI[i].flux_type_id = FI[j].flux_type_id /\ FI[i].reference = FI[j].reference)
            => i = j

\* A step that ingests again the line of the latest LogEntry, matched by the
\* same pattern.
Replayed ==
    /\ Len(LE) >= 1
    /\ Len(log_entries') = Len(LE) + 1
    /\ log_entries'[Len(LE) + 1].raw_log = LE[Len(LE)].raw_log
    /\ log_entries'[Len(LE) + 1].application_id = LE[Len(LE)].application_id
    /\ log_entries'[Len(LE) + 1].log_type = LE[Len(LE)].log_type

\* C2: ingesting an accepted line a second time adds exactly one LogEntry
\* and no FluxInstance (hence no child) and no CrossReference.
ReplayAddsOnlyALogEntry ==
    [][Replayed => /\ Len(flux_instances') = Len(FI)
                   /\ Len(cross_references') = Len(CR)]_vars

\* The instance reached from i by following parent_id k times (NULL once
\* the chain ends).
RECURSIVE ParentIter(_, _)
ParentIter(i, k) ==
    IF i = NULL \/ k = 0 THEN i ELSE ParentIter(FI[i].parent_id, k - 1)

\* C3: following parent_id from an instance never returns to it.
NoParentCycle ==
    \A i \in 1..Len(FI) : \A k \in 1..Len(FI) : ParentIter(i, k) # i

\* C4: no two CrossReference rows have the same (source_flux_id,
\* target_flux_id, reference_field, reference_value).
NoDuplicateCrossReference ==
    \A i, j \in 1..Len(CR) :
        ( /\ CR[i].source_flux_id = CR[j].source_flux_id
          /\ CR[i].target_flux_id = CR[j].target_flux_id
          /\ CR[i].reference_field = CR[j].reference_field
          /\ CR[i].reference_value = CR[j].reference_value ) => i = j

\* A cross-referencing line was ingested twice and left its CrossReference.
CrossReferenceReplayed ==
    \E i, j \in 1..Len(LE) :
        /\ i < j
        /\ LE[i].raw_log = LE[j].raw_log
        /\ LE[i].flux_instance_id = LE[j].flux_instance_id
        /\ \E x \in 1..Len(CR) : CR[x].source_flux_id = LE[i].flux_instance_id

\* C5: a call that returns False leaves the committed store as it was.
FailureLeavesStoreUnchanged ==
    [][result'.ret = FALSE =>
          /\ flux_instances' = FI
          /\ log_entries' = LE
          /\ cross_references' = CR]_vars

\* A call failed on a store error, on a store that already holds rows.
StoreErrorRolledBack ==
    /\ result.ret = FALSE
    /\ result.error = "StoreError"
    /\ Len(LE) > 0

\* The ParsedLog a LogEntry was made from.
ParsedOf(e) ==
    [matched |-> TRUE, timestamp |-> e.timestamp, log_type |-> e.log_type,
     application |-> applications[e.application_id].name,
     flux_type |-> flux_types[applications[e.application_id].flux_type_id].name,
     identifier_fields |-> e.parsed_data.identifier_fields,
     payload_fields |-> e.parsed_data.payload_fields,
     reference_links |-> e.parsed_data.reference_links,
     raw_log |-> e.raw_log]

\* The lines ingested so far, in the order of their LogEntries.
Ingested == [i \in 1..Len(LE) |-> ParsedOf(LE[i])]

\* The store after ingesting the parsed lines ps, in order, into store s.
RECURSIVE IngestAll(_, _)
IngestAll(s, ps) ==
    IF ps = <<>> THEN s
    ELSE IngestAll(ProcessParsed(flux_types, applications, s, Head(ps), "none").s,
                   Tail(ps))

\* The ids a line refers to: its cross-reference values, its child ids and
\* its parent_ref.
ReferencedIds(p) ==
    LET links == {p.reference_links[i].v : i \in 1..Len(p.reference_links)}
        enfants == DictGet(p.payload_fields, "enfants_ids", Empty)
        ids == IdsList(enfants)
        children == IF p.log_type = "CREATION_ENFANTS" /\ enfants # Empty
                    THEN {ids[i] : i \in 1..Len(ids)} ELSE {}
        parent == IF p.log_type = "TRAITEMENT_ENFANT"
                  THEN {DictGet(p.payload_fields, "parent_ref", Empty)} ELSE {}
    IN  ((links \cup parent) \ {Empty}) \cup children

\* Every referenced id is the main reference of some line of ps.
Closed(ps) ==
    \A i \in 1..Len(ps) :
        ReferencedIds(ps[i]) \subseteq
            {MainReference(ps[j].identifier_fields) : j \in 1..Len(ps)}

Distinct(ps) == \A i, j \in 1..Len(ps) : ps[i] = ps[j] => i = j

Perms(n) == {f \in [1..n -> 1..n] : \A i, j \in 1..n : f[i] = f[j] => i = j}

\* The graph of a store over references: its (flow type, reference)
\* instances, its parent/child edges and its cross-reference edges.
Shape(s) ==
    [instances |-> {<<s.fi[i].flux_type_id, s.fi[i].reference>> : i \in 1..Len(s.fi)},
     parents |-> {<<s.fi[i].reference, s.fi[s.fi[i].parent_id].reference>> :
                    i \in {k \in 1..Len(s.fi) : s.fi[k].parent_id # NULL}},
     links |-> {<<s.fi[s.cr[x].source_flux_id].reference,
                  s.fi[s.cr[x].target_flux_id].reference,
                  s.cr[x].reference_field>> : x \in 1..Len(s.cr)}]

\* C6: for a set of lines in which every referenced id is also the main
\* reference of some line, every order of ingestion yields the same graph
\* shape as the order actually taken.
OrderIndependent ==
    (Distinct(Ingested) /\ Closed(Ingested)) =>
        \A f \in Perms(Len(Ingested)) :
            Shape(IngestAll(Store(<<>>, <<>>, <<>>),
                            [i \in 1..Len(Ingested) |-> Ingested[f[i]]]))
                = Shape(Committed)

\* C7: each LogEntry's flux_instance_id is the id of an existing
\* FluxInstance and its application_id the id of an existing ApplicationRow.
LogEntriesReferenceExistingRows ==
    \A i \in 1..Len(LE) :
        /\ \E k \in 1..Len(FI) : FI[k].id = LE[i].flux_instance_id
        /\ \E a \in 1..Len(applications) : applications[a].id = LE[i].application_id

\* LogEntries of two applications, attached to three instances.
LogsOnSeveralInstances ==
    /\ Cardinality({LE[i].application_id : i \in 1..Len(LE)}) >= 2
    /\ Cardinality({LE[i].flux_instance_id : i \in 1..Len(LE)}) >= 3

\* The reference-link items of LogEntry i whose value is the main reference
\* of the line.
OwnReferenceLinks(i) ==
    LET links == LE[i].parsed_data.reference_links
    IN  {k \in 1..Len(links) :
            /\ links[k].v # Empty
            /\ links[k].v = FI[LE[i].flux_instance_id].reference}

NoSelfEdge ==
    \A x \in 1..Len(CR) : CR[x].source_flux_id # CR[x].target_flux_id

\* C8 (as stated): a reference-link value equal to the line's own main
\* reference creates no CrossReference for that value, and no CrossReference
\* has source_flux_id equal to target_flux_id.
NoCrossReferenceForOwnReference ==
    /\ NoSelfEdge
    /\ \A i \in 1..Len(LE) : \A k \in OwnReferenceLinks(i) :
         ~\E x \in 1..Len(CR) :
             /\ CR[x].source_flux_id = LE[i].flux_instance_id
             /\ CR[x].reference_field = LE[i].parsed_data.reference_links[k].k
             /\ CR[x].reference_value = LE[i].parsed_data.reference_links[k].v

\* C8 (amended): no CrossReference has source_flux_id equal to
\* target_flux_id; a CrossReference whose value is the reference of its own
\* source leads to another instance, which carries that reference.
OwnReferenceCreatesNoSelfEdge ==
    /\ NoSelfEdge
    /\ \A x \in 1..Len(CR) :
         CR[x].reference_value = FI[CR[x].source_flux_id].reference =>
            /\ CR[x].target_flux_id # CR[x].source_flux_id
            /\ FI[CR[x].target_flux_id].reference = CR[x].reference_value

\* A line naming its own main reference was ingested and its instance is
\* the source of no CrossReference.
OwnReferenceIngested ==
    \E i \in 1..Len(LE) :
        /\ OwnReferenceLinks(i) # {}
        /\ \A x \in 1..Len(CR) : CR[x].source_flux_id # LE[i].flux_instance_id

\* C9: a non-null parent_id keeps its value over every ingestion.
ParentNeverOverwritten ==
    [][\A i \in 1..Len(FI) :
          FI[i].parent_id # NULL =>
             /\ i <= Len(flux_instances')
             /\ flux_instances'[i].parent_id = FI[i].parent_id]_vars

\* An instance with a parent has a TRAITEMENT_ENFANT line naming another
\* existing instance as parent, and a CREATION_ENFANTS line lists its
\* reference.
ParentChallenged ==
    \E i \in 1..Len(FI) :
        /\ FI[i].parent_id # NULL
        /\ \E e \in 1..Len(LE) :
             LET parent_ref == DictGet(LE[e].parsed_data.payload_fields,
                                       "parent_ref", Empty)
                 named == First({k \in 1..Len(FI) : FI[k].reference = parent_ref})
             IN  /\ LE[e].flux_instance_id = i
                 /\ LE[e].log_type = "TRAITEMENT_ENFANT"
                 /\ named # NULL
                 /\ named # FI[i].parent_id
        /\ \E e \in 1..Len(LE) :
             LET ids == IdsList(DictGet(LE[e].parsed_data.payload_fields,
                                        "enfants_ids", Empty))
             IN  /\ LE[e].log_type = "CREATION_ENFANTS"
                 /\ \E k \in 1..Len(ids) : ids[k] = FI[i].reference
                 /\ \E c \in 1..Len(FI) :
                      c > i /\ FI[c].parent_id = LE[e].flux_instance_id

\* The entry of the catalog that a LogEntry's application and stage name.
PatternOf(e) ==
    LET app == applications[e.application_id]
        hits == {k \in 1..Len(CompilePatterns) :
                   /\ CompilePatterns[k].flux_type = flux_types[app.flux_type_id].name
                   /\ CompilePatterns[k].application = app.name
                   /\ CompilePatterns[k].log_type = e.log_type}
    IN  CompilePatterns[CHOOSE k \in hits : TRUE]

\* The values the raw line carries for the declared identifier fields, in
\* the declared order, empty values dropped.
DeclaredIdentifiers(e) ==
    LET fields == PatternOf(e).pattern.identifier_fields
        values == [k \in 1..Len(fields) |-> e.raw_log.cap[fields[k]]]
    IN  SelectSeq(values, LAMBDA v : v # Empty)

\* C10: every LogEntry is attached to the ACTIF instance of the matched
\* pattern's flow type whose reference is the first non-empty declared
\* identifier of the line; no LogEntry comes from a line without one.
LogAttachedToMainReference ==
    \A i \in 1..Len(LE) :
        /\ DeclaredIdentifiers(LE[i]) # <<>>
        /\ LE[i].flux_instance_id \in 1..Len(FI)
        /\ FI[LE[i].flux_instance_id].reference = Head(DeclaredIdentifiers(LE[i]))
        /\ FI[LE[i].flux_instance_id].flux_type_id
              = applications[LE[i].application_id].flux_type_id
        /\ FI[LE[i].flux_instance_id].status = "ACTIF"

\* Lines with the first identifier empty, and with two identifiers, were
\* ingested, and a line without identifier was rejected.
IdentifierOrderExercised ==
    /\ \E i \in 1..Len(LE) : Len(DeclaredIdentifiers(LE[i])) = 2
    /\ \E i \in 1..Len(LE) :
          /\ Len(PatternOf(LE[i]).pattern.identifier_fields) = 2
          /\ LE[i].raw_log.cap["id"] = Empty
    /\ result.error = "ValueError"

\* The LogEntry a successful step adds (the last one after the step).
Accepted == result'.ret = TRUE /\ Len(log_entries') = Len(LE) + 1

\* C11: after a line with a non-empty reference-link value v in field f is
\* ingested from source S, an instance with reference v exists; if none had
\* that reference before, exactly one was created, of S's flow type and
\* ACTIF; and if the target (the instance the lookup by v returns) is not S,
\* the CrossReference (S, target, f, v) exists.
CrossReferenceTargetResolved ==
    [][Accepted =>
         LET e == log_entries'[Len(LE) + 1]
             S == e.flux_instance_id
             links == e.parsed_data.reference_links
         IN  \A k \in 1..Len(links) :
               links[k].v # Empty =>
                 LET v == links[k].v
                     before == {i \in 1..Len(FI) : FI[i].reference = v}
                     after == {i \in 1..Len(flux_instances') :
                                 flux_instances'[i].reference = v}
                     target == First(after)
                 IN  /\ after # {}
                     /\ before = {} =>
                          /\ Cardinality(after) = 1
                          /\ flux_instances'[target].flux_type_id
                               = flux_instances'[S].flux_type_id
                          /\ flux_instances'[target].status = "ACTIF"
                     /\ target # S =>
                          \E x \in 1..Len(cross_references') :
                            /\ cross_references'[x].source_flux_id = S
                            /\ cross_references'[x].target_flux_id = target
                            /\ cross_references'[x].reference_field = links[k].k
                            /\ cross_references'[x].reference_value = v]_vars

\* A CrossReference leads to an instance that no line names as its main
\* reference (the lookup created it), and another one to an instance that
\* existed before its source.
TargetCreatedAndTargetFound ==
    /\ \E x \in 1..Len(CR) :
         /\ CR[x].target_flux_id > CR[x].source_flux_id
         /\ \A i \in 1..Len(LE) : LE[i].flux_instance_id # CR[x].target_flux_id
    /\ \E x \in 1..Len(CR) : CR[x].target_flux_id < CR[x].source_flux_id

\* The ids listed by the CREATION_ENFANTS line a step has just ingested
\* (none for another line), and those among them that no instance carried
\* before the step.
ListedChildren ==
    LET e == log_entries'[Len(LE) + 1]
        enfants_ids == DictGet(e.parsed_data.payload_fields, "enfants_ids", Empty)
        ids == IdsList(enfants_ids)
    IN  IF e.log_type = "CREATION_ENFANTS" /\ enfants_ids # Empty
        THEN {ids[k] : k \in 1..Len(ids)} ELSE {}

NewChildren ==
    {c \in ListedChildren : \A i \in 1..Len(FI) : FI[i].reference # c}

\* Some instance with reference c is ACTIF, of the flow type of S, a child
\* of S.
IsChildOf(fi, c, S) ==
    \E i \in 1..Len(fi) :
        /\ fi[i].reference = c
        /\ fi[i].flux_type_id = fi[S].flux_type_id
        /\ fi[i].status = "ACTIF"
        /\ fi[i].parent_id = fi[S].id

\* get_flux_details on the store after the step.
DetailsAfter(reference) ==
    GetFluxDetails(flux_types, applications,
                   Store(flux_instances', log_entries', cross_references'),
                   reference)

ListedUnderChildren(details, c) ==
    \E k \in 1..Len(details.children) : details.children[k].reference = c

\* C12 (as stated): after a CREATION_ENFANTS line for S is ingested, every
\* listed id not previously known is an ACTIF instance of S's flow type
\* with parent S, and get_flux_details(S.reference) lists it under children.
ChildrenCreatedAndListed ==
    [][Accepted =>
         LET S == log_entries'[Len(LE) + 1].flux_instance_id
         IN  \A c \in NewChildren :
               /\ IsChildOf(flux_instances', c, S)
               /\ ListedUnderChildren(DetailsAfter(flux_instances'[S].reference), c)]_vars

\* C12 (amended): every listed id not previously known is an ACTIF instance
\* of S's flow type with parent S; get_flux_details(S.reference) lists it
\* under children whenever the primary subject of that view is S.
ChildrenCreatedAndListedUnderSubject ==
    [][Accepted =>
         LET S == log_entries'[Len(LE) + 1].flux_instance_id
             details == DetailsAfter(flux_instances'[S].reference)
         IN  \A c \in NewChildren :
               /\ IsChildOf(flux_instances', c, S)
               /\ details.found
               /\ details.flux.id = S => ListedUnderChildren(details, c)]_vars

\* A CREATION_ENFANTS line has left a child that the view of its source
\* lists, and another one a child that the view of its source's reference
\* does not list (the reference resolves to another instance).
ChildListedAndChildHidden ==
    LET Details(r) == GetFluxDetails(flux_types, applications, Committed, r)
        Sources == {LE[e].flux_instance_id :
                      e \in {x \in 1..Len(LE) : LE[x].log_type = "CREATION_ENFANTS"}}
        Kids(S) == {i \in 1..Len(FI) : FI[i].parent_id = S /\ i # S}
    IN  /\ \E S \in Sources : \E i \in Kids(S) :
              /\ Details(FI[S].reference).flux.id = S
              /\ ListedUnderChildren(Details(FI[S].reference), FI[i].reference)
        /\ \E S \in Sources : \E i \in Kids(S) :
              /\ Details(FI[S].reference).flux.id # S
              /\ ~ListedUnderChildren(Details(FI[S].reference), FI[i].reference)

\* C13: no FluxInstance has an empty reference or a reference with leading
\* or trailing whitespace (the ids of an enfants_ids list are trimmed and
\* its empty tokens dropped).
NoEmptyOrUntrimmedReference ==
    \A i \in 1..Len(FI) :
        /\ FI[i].reference # Empty
        /\ Strip(FI[i].reference) = FI[i].reference

\* The last call of parse_log_line, the view its forced arguments select,
\* and the entries of that view whose regex matches the line and whose
\* timestamp capture exists and parses.
LastCall == parsed_log.call

LastView ==
    SelectView(self_patterns, LastCall.force_flux_type,
               LastCall.force_application).view

Parsable ==
    {i \in 1..Len(LastView) :
        /\ LastView[i].pattern.regex = LastCall.line.kw
        /\ "timestamp" \in LastView[i].pattern.groups
        /\ ParseTimestampFlexible(LastCall.line.ts,
                                  LastView[i].pattern.timestamp_format).ok}

\* process_log_line returns False on what parse_log_line last returned and
\* leaves the store as it is.
LastCallRejected ==
    \A fault \in Faults :
        ProcessParsed(flux_types, applications, Committed, parsed_log.out, fault)
            = Returned(Committed, FALSE, "parse_miss")

\* C14: a pattern whose regex matches but whose timestamp does not parse is
\* passed over; the ParsedLog is that of the first pattern of the view that
\* matches and has a parsable timestamp, and the line is a no-match
\* (process_log_line returns False) only if there is no such pattern.
TimestampFailureSkipsPattern ==
    /\ Parsable # {} =>
          /\ parsed_log.out.matched
          /\ parsed_log.out.flux_type = LastView[First(Parsable)].flux_type
          /\ parsed_log.out.application = LastView[First(Parsable)].application
          /\ parsed_log.out.log_type = LastView[First(Parsable)].log_type
    /\ Parsable = {} => ~parsed_log.out.matched /\ LastCallRejected

\* The ParsedLog returned comes from a pattern tried after one whose regex
\* matched the line and whose timestamp format did not.
LaterPatternParsed ==
    /\ parsed_log.out.matched
    /\ \E j \in 1..Len(LastView) :
         /\ j < First(Parsable)
         /\ LastView[j].pattern.regex = LastCall.line.kw
         /\ ~ParseTimestampFlexible(LastCall.line.ts,
                                    LastView[j].pattern.timestamp_format).ok

\* The flow type and application names of the catalog.
FluxNames == {self_patterns[i].flux_type : i \in 1..Len(self_patterns)}
AppNames == {self_patterns[i].application : i \in 1..Len(self_patterns)}

\* C15: a ParsedLog returned under a forced flow type / application has
\* that flow type / application, and a forced name absent from the catalog
\* yields no-match: process_log_line returns False, store unchanged.
ForcedViewOnly ==
    /\ (LastCall.force_flux_type # NoForce /\ parsed_log.out.matched)
          => parsed_log.out.flux_type = LastCall.force_flux_type
    /\ (LastCall.force_application # NoForce /\ parsed_log.out.matched)
          => parsed_log.out.application = LastCall.force_application
    /\ ( \/ LastCall.force_flux_type \notin FluxNames \cup {NoForce}
         \/ LastCall.force_application \notin AppNames \cup {NoForce} )
          => ~parsed_log.out.matched /\ LastCallRejected

\* A forced flow type gave a ParsedLog of another flow type than the same
\* line gives unforced.
ForcedViewChangedResult ==
    /\ LastCall.force_flux_type # NoForce
    /\ parsed_log.out.matched
    /\ ParseLogLine(self_patterns, LastCall.line, NoForce, NoForce).matched
    /\ ParseLogLine(self_patterns, LastCall.line, NoForce, NoForce).flux_type
          # parsed_log.out.flux_type

\* Every field a pattern lists, and the timestamp, is a named group of its
\* regex.
ValidCatalog(patterns) ==
    \A i \in 1..Len(patterns) :
        LET pat == patterns[i].pattern
            Listed(fields) == {fields[k] : k \in 1..Len(fields)}
        IN  {"timestamp"} \cup Listed(pat.identifier_fields)
              \cup Listed(pat.payload_fields) \cup Listed(pat.reference_links)
                \subseteq pat.groups

\* C16: a tracker is constructed (and parses lines) only on a catalog in
\* which every listed field and the timestamp are named groups.
InvalidCatalogNeverReady ==
    phase = "ready" => ValidCatalog(self_patterns)

\* The set of items of a sequence.
Range(seq) == {seq[k] : k \in 1..Len(seq)}

\* The instance get_flux_details finds for the reference of the view (NULL
\* if none), and the log views of an instance.
FoundFlux == First({i \in 1..Len(FI) : FI[i].reference = view.reference})

LogViewsOf(id) ==
    {LogView(applications, LE[e]) :
        e \in {x \in 1..Len(LE) : LE[x].flux_instance_id = id}}

\* The view v has instance id as its primary subject: its flux, logs,
\* cross_references and children are those of id.
HasSubject(v, id) ==
    /\ v.flux.id = id
    /\ v.flux.reference = FI[id].reference
    /\ v.flux.status = FI[id].status
    /\ v.flux.flux_type = flux_types[FI[id].flux_type_id].name
    /\ Range(v.logs) = LogViewsOf(id)
    /\ Len(v.cross_references)
          = Cardinality({x \in 1..Len(CR) : CR[x].source_flux_id = id})
    /\ Range(v.cross_references)
          = {[target_reference |-> FI[CR[x].target_flux_id].reference,
              reference_field |-> CR[x].reference_field,
              reference_value |-> CR[x].reference_value] :
                x \in {y \in 1..Len(CR) : CR[y].source_flux_id = id}}
    /\ Len(v.children) = Cardinality({k \in 1..Len(FI) : FI[k].parent_id = id})
    /\ Range(v.children)
          = {[reference |-> FI[k].reference, status |-> FI[k].status] :
                k \in {j \in 1..Len(FI) : FI[j].parent_id = id}}

\* C17: get_flux_details returns not-found when no instance has the
\* reference; when the found instance has a parent, the primary subject is
\* the parent and subflow_info has is_subflow = true, the found instance's
\* own fields and logs and the parent's reference; otherwise the found
\* instance is the primary subject and is_subflow = false.
DetailsResolveParent ==
    view.op = "get_flux_details" =>
        /\ view.ret.found <=> FoundFlux # NULL
        /\ (FoundFlux # NULL /\ FI[FoundFlux].parent_id # NULL) =>
              /\ HasSubject(view.ret, FI[FoundFlux].parent_id)
              /\ view.ret.subflow_info.is_subflow
              /\ view.ret.subflow_info.requested_reference = view.reference
              /\ view.ret.subflow_info.subflow_details.id = FoundFlux
              /\ view.ret.subflow_info.subflow_details.reference = view.reference
              /\ view.ret.subflow_info.subflow_details.status = FI[FoundFlux].status
              /\ Range(view.ret.subflow_info.subflow_logs) = LogViewsOf(FoundFlux)
              /\ view.ret.subflow_info.parent_reference
                    = FI[FI[FoundFlux].parent_id].reference
        /\ (FoundFlux # NULL /\ FI[FoundFlux].parent_id = NULL) =>
              /\ HasSubject(view.ret, FoundFlux)
              /\ ~view.ret.subflow_info.is_subflow

\* A sub-flow that has logs of its own was queried, and its parent, another
\* instance, has logs too.
SubflowQueried ==
    /\ view.op = "get_flux_details"
    /\ view.ret.found
    /\ view.ret.subflow_info.is_subflow
    /\ view.ret.flux.id # FoundFlux
    /\ view.ret.subflow_info.subflow_logs # <<>>
    /\ view.ret.logs # <<>>
    /\ view.ret.children # <<>>

\* The configuration entry of the flow type of instance i.
ConfigOf(i) ==
    self_config[CHOOSE f \in 1..Len(self_config) :
                   self_config[f].name = flux_types[FI[i].flux_type_id].name]

\* Instance i lacks a required stage of its flow type.
LacksRequired(i) ==
    \E stage \in Range(ConfigOf(i).required_steps) :
        \A e \in 1..Len(LE) :
            LE[e].flux_instance_id = i => LE[e].log_type # stage

\* The instances the diagnostics should report for flow type `name`.
Incomplete(name) ==
    {i \in 1..Len(FI) :
        /\ flux_types[FI[i].flux_type_id].name = name
        /\ FI[i].parent_id = NULL
        /\ LacksRequired(i)}

CompletionRateFullIffNothingMissing ==
    view.op = "completion_rate" =>
        (view.completion_rate = Full <=> view.missing = 0)

\* The message process_log_line is called on for item k of the batch that
\* stats' describes.
ItemMessage(k) ==
    IF stats'.op = "process_log_file" THEN Text(stats'.items[k])
    ELSE LogMessage(stats'.items[k])

\* Item k is accepted when ingested by itself: it has a text, a pattern
\* matches it, it has a main reference and no store error hits it.
ItemAcceptable(k) ==
    LET parsed == ParseOf[Call(ItemMessage(k).line, NoForce, NoForce)]
    IN  /\ Truthy(ItemMessage(k))
        /\ parsed.matched
        /\ MainReference(parsed.identifier_fields) # Empty
        /\ stats'.faults[k] = "none"

Linked(a, b) ==
    \E x \in 1..Len(CR) :
        \/ CR[x].source_flux_id = a /\ CR[x].target_flux_id = b
        \/ CR[x].source_flux_id = b /\ CR[x].target_flux_id = a

\* The closure of a set of instances under Linked.
RECURSIVE Closure(_)
Closure(set) ==
    LET more == set \cup {b \in 1..Len(FI) : \E a \in set : Linked(a, b)}
    IN  IF more = set THEN set ELSE Closure(more)

LinkedReturned ==
    view.op = "get_all_linked_flows" /\ view.pc = "returned" /\ view.found

\* C21: a call of get_all_linked_flows returns, on cyclic graphs too, and
\* what it returns is the closure of the start flux under the
\* CrossReferences taken in either direction, each instance once.
LinkedFlowsTerminateWithClosure ==
    /\ Traversing ~> ~Traversing
    /\ [](LinkedReturned =>
            /\ Range(view.t.visited)
                 = Closure({StartFlux(Committed, view.reference)})
            /\ Distinct(view.t.visited))

\* A call returned the two instances of a cycle.
CycleTraversed ==
    /\ LinkedReturned
    /\ \E x, y \in 1..Len(CR) :
          /\ CR[x].source_flux_id = CR[y].target_flux_id
          /\ CR[x].target_flux_id = CR[y].source_flux_id
    /\ Len(view.t.visited) = 2

\* The flux the command resolves for the reference asked: the parent when
\* the reference is that of a sub-flow.
ResolvedFlux ==
    LET flux == First({i \in 1..Len(FI) : FI[i].reference = view.reference})
    IN  IF ParentOf(FI, flux) # NULL THEN ParentOf(FI, flux) ELSE flux

\* C22: the get-flux command prints the linked-flow expansion exactly when
\* a CrossReference leaves or enters the flux it resolves.
LinkedExpansionIffCrossReferenced ==
    (view.op = "cmd_get_flux" /\ view.out.printed # "not_found") =>
        ( view.out.printed = "linked_flows"
            <=> \E x \in 1..Len(CR) :
                   ResolvedFlux \in {CR[x].source_flux_id, CR[x].target_flux_id} )

\* The names of the catalogs in alphabetical order (the order of Python
\* strings), and the place of a name in it.
Alphabet ==
    << "Backend", "COMMANDE", "COMMANDE_RECU", "CREATION_ENFANTS", "Frontend",
       "ORDRE", "ORDRE_TRAITE", "TRAITEMENT_ENFANT", "VALIDATION_COMMANDE",
       "ref" >>

Rank(name) == CHOOSE k \in 1..Len(Alphabet) : Alphabet[k] = name

\* (flow type, application, stage) of a is not after that of b.
NotAfter(a, b) ==
    \/ Rank(a.flux_type) < Rank(b.flux_type)
    \/ /\ a.flux_type = b.flux_type
       /\ \/ Rank(a.application) < Rank(b.application)
          \/ /\ a.application = b.application
             /\ Rank(a.log_type) <= Rank(b.log_type)

\* C23: the ParsedLog is that of the pattern that comes first by flow type,
\* then application, then stage, alphabetically, among the patterns of the
\* view that parse the line, whatever the order of the configuration.
AlphabeticallyFirstPatternWins ==
    parsed_log.out.matched =>
        \A i \in Parsable : NotAfter(parsed_log.out, LastView[i])

\* C24: when an accepted CREATION_ENFANTS line lists a child id for which
\* an instance already exists, that instance is left as it is and no other
\* instance with that reference is created.
ExistingChildLeftAlone ==
    [][Accepted =>
         \A c \in ListedChildren :
            (\E i \in 1..Len(FI) : FI[i].reference = c) =>
               /\ \A i \in 1..Len(FI) :
                     FI[i].reference = c => flux_instances'[i] = FI[i]
               /\ \A i \in 1..Len(flux_instances') :
                     flux_instances'[i].reference = c => i <= Len(FI)]_vars

\* Worker w has returned True for a line of flow type ft and main reference
\* main.
ReturnedFor(w, ft, main) ==
    /\ sessions[w].pc = "returned"
    /\ sessions[w].ret
    /\ ParseOf[sessions[w].call].flux_type = ft
    /\ MainReference(ParseOf[sessions[w].call].identifier_fields) = main

\* C25: after two workers have both ingested a line of the same flow type
\* and main reference, at most one FluxInstance exists for that flow type
\* and reference.
ConcurrentLinesShareOneInstance ==
    \A ft \in {flux_types[i].name : i \in 1..Len(flux_types)} : \A main \in Refs :
        (ReturnedFor(1, ft, main) /\ ReturnedFor(2, ft, main)) =>
            Cardinality({i \in 1..Len(FI) :
                           /\ flux_types[FI[i].flux_type_id].name = ft
                           /\ FI[i].reference = main}) <= 1

\* The instance the LogEntry of an accepted line is attached to.
Resolved == log_entries'[Len(LE) + 1].flux_instance_id

\* C26: when an accepted line is appended to an instance that existed
\* before, the updated_at of that instance is no earlier than the instant
\* of this ingestion, and later than it was.
AppendTouchesUpdatedAt ==
    [][(Accepted /\ Resolved <= Len(FI)) =>
          /\ times'.updated_at[Resolved] >= times.now
          /\ times'.updated_at[Resolved] > times.updated_at[Resolved]]_vars

\* C27: a CrossReference row that exists is the same row after every call,
\* those that fail and are rolled back included.
CrossReferencesMonotonic ==
    [][\A x \in 1..Len(CR) :
          /\ x <= Len(cross_references')
          /\ cross_references'[x] = CR[x]]_vars

\* A call failed on a store error and was rolled back while a
\* CrossReference existed.
RolledBackWithCrossReference ==
    /\ Len(CR) > 0
    /\ result.ret = FALSE
    /\ result.error = "StoreError"

\* C28: every call of process_log_line keeps every FluxInstance row, with
\* its flux_type_id, reference, status and created_at; a parent_id changes
\* only if it was null.
InstancesKeepIdentity ==
    [][\A i \in 1..Len(FI) :
          /\ i <= Len(flux_instances')
          /\ flux_instances'[i].id = FI[i].id
          /\ flux_instances'[i].flux_type_id = FI[i].flux_type_id
          /\ flux_instances'[i].reference = FI[i].reference
          /\ flux_instances'[i].status = FI[i].status
          /\ times'.created_at[i] = times.created_at[i]
          /\ (flux_instances'[i].parent_id # FI[i].parent_id
                => FI[i].parent_id = NULL)]_vars

\* An instance had its parent bound after its creation: its updated_at is
\* later than its created_at.
ParentBoundLater ==
    \E i \in 1..Len(FI) :
        /\ FI[i].parent_id # NULL
        /\ times.updated_at[i] > times.created_at[i]

\* C29: constructing the tracker again on its store and configuration
\* leaves one FluxTypeRow per configured flow type, one ApplicationRow per
\* configured (flow type, application), and the FluxInstances, LogEntries
\* and CrossReferences as they are.
InitializationIdempotent ==
    [][view'.op = "__init__" =>
         /\ \A f \in 1..Len(self_config) :
               /\ Cardinality({i \in 1..Len(flux_types') :
                                 flux_types'[i].name = self_config[f].name}) = 1
               /\ \A a \in 1..Len(self_config[f].applications) :
                     Cardinality(
                        {i \in 1..Len(applications') :
                           /\ applications'[i].name
                                 = self_config[f].applications[a].name
                           /\ flux_types'[applications'[i].flux_type_id].name
                                 = self_config[f].name}) = 1
         /\ Len(flux_types') = Len(self_config)
         /\ flux_instances' = FI
         /\ log_entries' = LE
         /\ cross_references' = CR]_vars

\* The tracker was constructed again on a store that holds instances.
ConstructedOnUsedStore == view.op = "__init__" /\ Len(FI) > 0 /\ Len(CR) > 0

\* The characters of the references in the order of Python strings, and
\* reference a not after reference b in that order.
Chars == <<" ", ",", "A", "B", "C">>

CharRank(c) == CHOOSE k \in 1..Len(Chars) : Chars[k] = c

RECURSIVE RefNotAfter(_, _)
RefNotAfter(a, b) ==
    IF a = <<>> THEN TRUE
    ELSE IF b = <<>> THEN FALSE
    ELSE IF Head(a) = Head(b) THEN RefNotAfter(Tail(a), Tail(b))
    ELSE CharRank(Head(a)) < CharRank(Head(b))

\* C30: in what get_flux_details returns, the logs are in ascending order
\* of timestamp, the children in the order of their references, and the
\* cross-references in the order of their target references, then of their
\* fields.
DetailsListsSorted ==
    (view.op = "get_flux_details" /\ view.ret.found) =>
        /\ \A j, k \in 1..Len(view.ret.logs) :
              j < k => view.ret.logs[j].timestamp <= view.ret.logs[k].timestamp
        /\ \A j, k \in 1..Len(view.ret.children) :
              j < k => RefNotAfter(view.ret.children[j].reference,
                                   view.ret.children[k].reference)
        /\ \A j, k \in 1..Len(view.ret.cross_references) :
              j < k =>
                LET a == view.ret.cross_references[j]
                    b == view.ret.cross_references[k]
                IN  /\ RefNotAfter(a.target_reference, b.target_reference)
                    /\ a.target_reference = b.target_reference
                          => Rank(a.reference_field) <= Rank(b.reference_field)

OtherStageIngested ==
    parsed_log'.out.matched =>
        parsed_log'.out.log_type \notin {"CREATION_ENFANTS", "TRAITEMENT_ENFANT"}

\* C32: ingesting a line whose stage is neither CREATION_ENFANTS nor
\* TRAITEMENT_ENFANT leaves the parent_id of every existing instance as it
\* was and creates no instance with a parent.
OnlySubFlowStagesChangeTree ==
    [][OtherStageIngested =>
         /\ \A i \in 1..Len(FI) : flux_instances'[i].parent_id = FI[i].parent_id
         /\ \A i \in (Len(FI) + 1)..Len(flux_instances') :
               flux_instances'[i].parent_id = NULL]_vars

\* A COMMANDE_RECU line that carries enfants_ids and parent_ref was
\* accepted on a store that holds a sub-flow.
OtherStageWithChildrenAccepted ==
    /\ parsed_log.out.matched
    /\ parsed_log.out.log_type = "COMMANDE_RECU"
    /\ DictGet(parsed_log.out.payload_fields, "enfants_ids", Empty) # Empty
    /\ DictGet(parsed_log.out.payload_fields, "parent_ref", Empty) # Empty
    /\ result.ret
    /\ Len(LE) > 0 /\ LE[Len(LE)].log_type = "COMMANDE_RECU"
    /\ \E i \in 1..Len(FI) : FI[i].parent_id # NULL

\* C33: every non-null parent_id, and the source_flux_id and target_flux_id
\* of every CrossReference, is the id of a FluxInstance of the store.
ForeignKeysResolve ==
    LET ids == {FI[i].id : i \in 1..Len(FI)}
    IN  /\ \A i \in 1..Len(FI) : FI[i].parent_id # NULL => FI[i].parent_id \in ids
        /\ \A x \in 1..Len(CR) :
              CR[x].source_flux_id \in ids /\ CR[x].target_flux_id \in ids

\* The store holds a sub-flow and a cross-reference, and a later line was
\* rolled back.
TreeAndLinksAfterRollback ==
    /\ \E i \in 1..Len(FI) : FI[i].parent_id # NULL
    /\ Len(CR) > 0
    /\ result.error = "StoreError"

\* C34: the reference_value of every CrossReference is the reference of its
\* target FluxInstance, and its source FluxInstance has at least one
\* LogEntry.
CrossReferenceNamesTarget ==
    \A x \in 1..Len(CR) :
        /\ \E t \in 1..Len(FI) :
              /\ FI[t].id = CR[x].target_flux_id
              /\ FI[t].reference = CR[x].reference_value
        /\ \E e \in 1..Len(LE) : LE[e].flux_instance_id = CR[x].source_flux_id

\* A cross-reference points to an instance that existed before the line
\* that links to it, and another instance has the same reference as the
\* target.
LinkedToExistingTarget ==
    \E x \in 1..Len(CR) :
        /\ CR[x].target_flux_id < CR[x].source_flux_id
        /\ \E i \in 1..Len(FI) :
              /\ i # CR[x].target_flux_id
              /\ FI[i].reference = CR[x].reference_value

\* C35: the ApplicationRow of every LogEntry belongs to the flow type of
\* the FluxInstance the LogEntry is attached to.
LogApplicationOfSameFlowType ==
    \A e \in 1..Len(LE) :
        \E a \in 1..Len(applications) : \E i \in 1..Len(FI) :
            /\ applications[a].id = LE[e].application_id
            /\ FI[i].id = LE[e].flux_instance_id
            /\ applications[a].flux_type_id = FI[i].flux_type_id

\* LogEntries of both flow types are stored, and an instance of each flow
\* type has the same reference.
BothFlowTypesLogged ==
    /\ \E d, e \in 1..Len(LE) :
          applications[LE[d].application_id].flux_type_id
             # applications[LE[e].application_id].flux_type_id
    /\ \E i, j \in 1..Len(FI) :
          /\ FI[i].reference = FI[j].reference
          /\ FI[i].flux_type_id # FI[j].flux_type_id

\* C36: over a batch the processed counter is the number of LogEntry rows
\* added; each processed item added exactly one LogEntry and each failed
\* item none.
BatchProcessedIsLogEntriesAdded ==
    [][stats'.op # "none" =>
         /\ stats'.processed = Len(log_entries') - Len(LE)
         /\ Len(stats'.added) = Len(stats'.items)
         /\ \A k \in 1..Len(stats'.items) :
               stats'.added[k] = IF stats'.rets[k] THEN 1 ELSE 0]_vars

\* A file of two acceptable lines: the first was processed, the second
\* failed on a store error after its LogEntry was added to the session.
BatchItemRolledBack ==
    /\ stats.op = "process_log_file"
    /\ Len(stats.items) = 2
    /\ stats.rets[1] /\ ~stats.rets[2]
    /\ stats.items[2].kw \in {"RECU", "LINK"}
    /\ stats.faults[2] = "sub_flows"
    /\ stats.processed = 1 /\ stats.failed = 1
    /\ Len(LE) = 1

\* The row ids of the FluxInstances.
InstanceIds == {FI[i].id : i \in 1..Len(FI)}

\* C37: get_flux_details follows parent_id once: when the found instance
\* has a parent, the primary subject is that parent, whether or not the
\* parent has a parent itself; when parent_id names no row, the found
\* instance is the primary subject and is_subflow is false.
DetailsResolveOneHop ==
    (view.op = "get_flux_details" /\ FoundFlux # NULL
        /\ FI[FoundFlux].parent_id # NULL) =>
        /\ view.ret.found
        /\ FI[FoundFlux].parent_id \in InstanceIds =>
              /\ view.ret.flux.id = FI[FoundFlux].parent_id
              /\ view.ret.flux.reference = FI[FI[FoundFlux].parent_id].reference
              /\ view.ret.subflow_info.is_subflow
              /\ view.ret.subflow_info.subflow_details.id = FI[FoundFlux].id
        /\ FI[FoundFlux].parent_id \notin InstanceIds =>
              /\ view.ret.flux.id = FI[FoundFlux].id
              /\ view.ret.flux.reference = view.reference
              /\ ~view.ret.subflow_info.is_subflow

\* A sub-flow of a sub-flow of a top-level instance was queried: the
\* subject returned is the direct parent, not the root.
GrandchildQueried ==
    /\ view.op = "get_flux_details"
    /\ FoundFlux # NULL
    /\ \E p, r \in 1..Len(FI) :
          /\ FI[FoundFlux].parent_id = p
          /\ FI[p].parent_id = r
          /\ FI[r].parent_id = NULL
          /\ Cardinality({FoundFlux, p, r}) = 3
          /\ view.ret.flux.id = p

\* An instance whose parent_id names no row was queried.
DanglingParentQueried ==
    /\ view.op = "get_flux_details"
    /\ FoundFlux # NULL
    /\ FI[FoundFlux].parent_id # NULL
    /\ FI[FoundFlux].parent_id \notin InstanceIds
    /\ view.ret.flux.id = FoundFlux

\* The top-level instances of flow type `name` with reference ref that have
\* no LogEntry and are the target of a CrossReference.
BareTargets(name, ref) ==
    {i \in 1..Len(FI) :
        /\ flux_types[FI[i].flux_type_id].name = name
        /\ FI[i].reference = ref
        /\ FI[i].parent_id = NULL
        /\ \A e \in 1..Len(LE) : LE[e].flux_instance_id # FI[i].id
        /\ \E x \in 1..Len(CR) : CR[x].target_flux_id = FI[i].id}

\* An incomplete_info that reports reference ref with every required stage
\* of c missing and nothing seen: no present stage, a completion rate of 0,
\* no last activity and no last log type (None, held as "").
ReportsNothingSeen(info, c, ref) ==
    /\ info.reference = ref
    /\ info.missing_required_stages = c.required_steps
    /\ info.completion_rate = 0
    /\ info.present_stages = {}
    /\ info.last_activity = NULL
    /\ info.last_log_type = ""

====
